---------------------------- MODULE Spec2Model ----------------------------
(***************************************************************************)
(* A model of zjson, a pull-based JSON parser made of nested cursors.      *)
(*                                                                         *)
(* A character is its Unicode code point (a natural number); a `&str` is   *)
(* a sequence of characters.  Every cursor owns a `remaining` slice, and a *)
(* child cursor holds an exclusive borrow of its parent, so the live       *)
(* cursors form a stack: only the top one can be called, and dropping it   *)
(* gives the one below back to the caller.                                 *)
(***************************************************************************)
EXTENDS Naturals, Integers, Sequences, FiniteSets, TLC

(***************************************************************************)
(* Characters the source names in its patterns.                            *)
(***************************************************************************)
Chr ==
    [ tab |-> 9, lf |-> 10, cr |-> 13, space |-> 32, quote |-> 34,
      plus |-> 43, comma |-> 44, minus |-> 45, dot |-> 46, slash |-> 47,
      d0 |-> 48, d1 |-> 49, d2 |-> 50, d3 |-> 51, d4 |-> 52, d5 |-> 53, d6 |-> 54,
      d7 |-> 55, d8 |-> 56, d9 |-> 57,
      colon |-> 58,
      A |-> 65, B |-> 66, C |-> 67, D |-> 68, E |-> 69, F |-> 70, L |-> 76, T |-> 84,
      lbracket |-> 91, backslash |-> 92, rbracket |-> 93,
      a |-> 97, b |-> 98, c |-> 99, d |-> 100, e |-> 101, f |-> 102,
      k |-> 107, l |-> 108, n |-> 110, r |-> 114, s |-> 115,
      t |-> 116, u |-> 117, x |-> 120,
      lbrace |-> 123, rbrace |-> 125, nbsp |-> 160, eacute |-> 233,
      grin |-> 128512 ]

\* A whitespace test that knows ASCII only (char::is_ascii_whitespace): a
\* variant the properties below must tell from IsWhitespace.
IsAsciiWhitespace(c) == c \in {9, 10, 12, 13, 32}

\* char::is_whitespace: the Unicode White_Space property.
IsWhitespace(c) ==
    \/ c \in 9..13
    \/ c \in {32, 133, 160, 5760, 8232, 8233, 8239, 8287, 12288}
    \/ c \in 8192..8202

\* char::is_ascii_digit
IsAsciiDigit(c) == c \in Chr.d0..Chr.d9

\* char::to_digit(16): the digit's value, or -1 for None.
ToDigit16(c) ==
    IF c \in Chr.d0..Chr.d9 THEN c - Chr.d0
    ELSE IF c \in Chr.a..Chr.f THEN c - Chr.a + 10
    ELSE IF c \in Chr.A..Chr.F THEN c - Chr.A + 10
    ELSE -1

\* A scalar test that lets the surrogates pass: a variant the properties
\* below must tell from IsScalar.
IsScalarOrSurrogate(n) == n \in 0..1114111

\* char::from_u32(n).is_some(): a scalar value is no surrogate and at most 0x10FFFF.
IsScalar(n) == n \in 0..55295 \/ n \in 57344..1114111

(***************************************************************************)
(* Option, Result, Status.                                                 *)
(***************************************************************************)
None == [tag |-> "None"]
Some(x) == [tag |-> "Some", v |-> x]
Ok(x) == [tag |-> "Ok", v |-> x]
Err(e) == [tag |-> "Err", e |-> e]
Panic == [tag |-> "Panic"]
\* What a method returns that is no Result and no Option.
Value(x) == [tag |-> "Value", v |-> x]
Parsing(m) == [tag |-> "Parsing", m |-> m]
StatusDone(r) == [tag |-> "Done", r |-> r]

(***************************************************************************)
(* containers.rs: ParsePrompt and ParseStatus.                             *)
(***************************************************************************)
Prompted(prompt) == [tag |-> "Prompted", prompt |-> prompt]
Done == [tag |-> "Done"]

\* A start-of-value test that forgets the minus sign: a variant the
\* properties below must tell from ParsePromptGet.
ParsePromptGetUnsigned(c) ==
    IF c = Chr.quote THEN Some("String")
    ELSE IF c \in Chr.d0..Chr.d9 THEN Some("Number")
    ELSE IF c = Chr.lbrace THEN Some("Object")
    ELSE IF c = Chr.lbracket THEN Some("Array")
    ELSE IF c \in {Chr.t, Chr.f, Chr.n} THEN Some("Literal")
    ELSE None

\* ParsePrompt::get
ParsePromptGet(c) ==
    IF c = Chr.quote THEN Some("String")
    ELSE IF c \in Chr.d0..Chr.d9 \/ c = Chr.minus THEN Some("Number")
    ELSE IF c = Chr.lbrace THEN Some("Object")
    ELSE IF c = Chr.lbracket THEN Some("Array")
    ELSE IF c \in {Chr.t, Chr.f, Chr.n} THEN Some("Literal")
    ELSE None

\* A keep_first that always consumes the first character: a variant the
\* properties below must tell from KeepFirst.
KeepFirstNever(prompt) == FALSE

\* ParsePrompt::keep_first
KeepFirst(prompt) == prompt \in {"Number", "Literal"}

\* &s[i..] for a character offset i (0-based, as in the source).
SliceFrom(s, i) == SubSeq(s, i + 1, Len(s))
\* &s[..i]
SliceTo(s, i) == SubSeq(s, 1, i)

\* A create that starts the child one character too far: a variant the
\* properties below must tell from Create.
CreateSkipping(prompt, remaining) ==
    IF prompt = "Array" \/ prompt = "Object"
    THEN [type |-> prompt, remaining |-> SliceFrom(remaining, 1),
          machine |-> [tag |-> "In", postcomma |-> FALSE]]
    ELSE [type |-> prompt, remaining |-> SliceFrom(remaining, 1)]

\* A create that takes an array for an object and an object for an array:
\* a variant the properties below must tell from Create.
CreateSwapped(prompt, remaining) ==
    IF prompt = "Array" \/ prompt = "Object"
    THEN [type |-> IF prompt = "Array" THEN "Object" ELSE "Array",
          remaining |-> remaining,
          machine |-> [tag |-> "In", postcomma |-> FALSE]]
    ELSE [type |-> prompt, remaining |-> remaining]

\* ParsePrompt::create with String::new, Number::new, Object::new, Array::new
\* and Literal::new: the child cursor.  Its `parent` is the frame below it.
Create(prompt, remaining) ==
    IF prompt = "Array" \/ prompt = "Object"
    THEN [type |-> prompt, remaining |-> remaining,
          machine |-> [tag |-> "In", postcomma |-> FALSE]]
    ELSE [type |-> prompt, remaining |-> remaining]

(***************************************************************************)
(* string/machine.rs                                                       *)
(***************************************************************************)
\* A pair decoded without the offset of the supplementary planes: a variant
\* the properties below must tell from SurrogateCharCode.
SurrogateCharCodeLow(high, low) == ((high - 55296) * 1024) + (low - 56320)

\* LowMachine::apply: char_code, high - 0xd800 having not underflowed.
SurrogateCharCode(high, low) == ((high - 55296) * 1024) + (low - 56320) + 65536

\* LowMachine::apply(self, c, high)
LowMachineApply(self, c, high) ==
    IF self.tag = "Awaiting" /\ c = Chr.backslash
    THEN Ok(Parsing([tag |-> "AwaitingU"]))
    ELSE IF self.tag = "AwaitingU" /\ c = Chr.u
    THEN Ok(Parsing([tag |-> "Hex", low |-> 0, len |-> 0]))
    ELSE IF self.tag = "Hex"
    THEN IF ToDigit16(c) = -1
         THEN Err(<<"ParseStringError", "InvalidUnicodeEscape", c>>)
         ELSE LET low == ((self.low * 16) % 65536) + ToDigit16(c) IN
              IF self.len = 3
              THEN IF ~(low \in 56320..57343)
                   THEN Err(<<"ParseStringError", "InvalidLowSurrogate", high, low>>)
                   ELSE IF high < 55296
                        THEN Panic  \* u16 subtraction overflow
                        ELSE LET char_code == SurrogateCharCode(high, low)
                             IN  IF IsScalar(char_code)
                                 THEN Ok(StatusDone(char_code))
                                 ELSE Panic  \* expect("failed to parse surrogate pair")
              ELSE Ok(Parsing([tag |-> "Hex", low |-> low, len |-> self.len + 1]))
    ELSE Err(<<"ParseStringError", "MissingLowSurrogate", high>>)

\* A Surrogate arm that reports every failure of the low machine as a
\* missing low surrogate: a variant the properties below must tell from
\* EscapeMachineSurrogate.
EscapeMachineSurrogateMissing(self, r) ==
    IF r.tag # "Ok" THEN Err(<<"ParseStringError", "MissingLowSurrogate", self.high>>)
    ELSE IF r.v.tag = "Parsing"
    THEN Ok(Parsing([tag |-> "Surrogate", high |-> self.high, low |-> r.v.m]))
    ELSE Ok(StatusDone(r.v.r))

\* EscapeMachine::apply, the Surrogate arm: the low machine's status mapped.
EscapeMachineSurrogate(self, r) ==
    IF r.tag # "Ok" THEN r
    ELSE IF r.v.tag = "Parsing"
    THEN Ok(Parsing([tag |-> "Surrogate", high |-> self.high, low |-> r.v.m]))
    ELSE Ok(StatusDone(r.v.r))

\* EscapeMachine::apply(self, c)
EscapeMachineApply(self, c) ==
    IF self.tag = "Awaiting"
    THEN IF c \in {Chr.quote, Chr.backslash, Chr.slash} THEN Ok(StatusDone(c))
         ELSE IF c = Chr.b THEN Ok(StatusDone(8))
         ELSE IF c = Chr.f THEN Ok(StatusDone(12))
         ELSE IF c = Chr.n THEN Ok(StatusDone(Chr.lf))
         ELSE IF c = Chr.r THEN Ok(StatusDone(Chr.cr))
         ELSE IF c = Chr.t THEN Ok(StatusDone(Chr.tab))
         ELSE IF c = Chr.u THEN Ok(Parsing([tag |-> "Unicode", n |-> 0, len |-> 0]))
         ELSE Err(<<"ParseStringError", "InvalidEscape", c>>)
    ELSE IF self.tag = "Unicode"
    THEN IF ToDigit16(c) = -1
         THEN Err(<<"ParseStringError", "InvalidUnicodeEscape", c>>)
         ELSE LET n == ((self.n * 16) % 65536) + ToDigit16(c) IN
              IF self.len = 3
              THEN IF IsScalar(n) THEN Ok(StatusDone(n))
                   ELSE IF n >= 56320
                   THEN Err(<<"ParseStringError", "MissingHighSurrogate", n>>)
                   ELSE Ok(Parsing([tag |-> "Surrogate", high |-> n,
                                    low |-> [tag |-> "Awaiting"]]))
              ELSE Ok(Parsing([tag |-> "Unicode", n |-> n, len |-> self.len + 1]))
    ELSE EscapeMachineSurrogate(self, LowMachineApply(self.low, c, self.high))

\* string::Machine::apply, the Escape arm: the escape machine's status mapped.
StringMachineEscape(r) ==
    IF r.tag # "Ok" THEN r
    ELSE IF r.v.tag = "Parsing" THEN Ok(Some([tag |-> "Escape", m |-> r.v.m]))
    ELSE Ok(Some([tag |-> "In"]))

\* A string machine for which a quote ends the string wherever it stands,
\* after a backslash too: a variant the properties below must tell from
\* StringMachineApply.
StringMachineApplyQuoteEnds(self, c) ==
    IF c = Chr.quote THEN Ok(None)
    ELSE IF self.tag = "In"
    THEN Ok(IF c = Chr.backslash THEN Some([tag |-> "Escape", m |-> [tag |-> "Awaiting"]])
            ELSE Some([tag |-> "In"]))
    ELSE StringMachineEscape(EscapeMachineApply(self.m, c))

\* string::Machine::apply(self, c): Ok(None) when the string is terminated.
StringMachineApply(self, c) ==
    IF self.tag = "In"
    THEN Ok(IF c = Chr.backslash THEN Some([tag |-> "Escape", m |-> [tag |-> "Awaiting"]])
            ELSE IF c = Chr.quote THEN None
            ELSE Some([tag |-> "In"]))
    ELSE StringMachineEscape(EscapeMachineApply(self.m, c))

(***************************************************************************)
(* number/machine.rs                                                       *)
(***************************************************************************)
\* A PostInteger arm that lets digits follow a leading zero: a variant the
\* properties below must tell from NumberMachinePostInteger.
NumberMachinePostIntegerLax(c) ==
    IF c \in Chr.d0..Chr.d9 THEN Ok(Parsing([tag |-> "InInteger"]))
    ELSE IF c = Chr.dot THEN Ok(Parsing([tag |-> "PreFraction"]))
    ELSE IF c \in {Chr.e, Chr.E}
    THEN Ok(Parsing([tag |-> "PreExponent", signed |-> FALSE]))
    ELSE Ok(StatusDone(<<>>))

\* number::Machine::apply, the PostInteger arm.
NumberMachinePostInteger(c) ==
    IF c = Chr.dot THEN Ok(Parsing([tag |-> "PreFraction"]))
    ELSE IF c \in {Chr.e, Chr.E}
    THEN Ok(Parsing([tag |-> "PreExponent", signed |-> FALSE]))
    ELSE Ok(StatusDone(<<>>))

\* number::Machine::apply(self, c): Ok(Done) when c ends the number.
NumberMachineApply(self, c) ==
    IF self.tag = "Start"
    THEN IF c = Chr.minus /\ ~self.signed
         THEN Ok(Parsing([tag |-> "Start", signed |-> TRUE]))
         ELSE IF c \in Chr.d1..Chr.d9 THEN Ok(Parsing([tag |-> "InInteger"]))
         ELSE IF c = Chr.d0 THEN Ok(Parsing([tag |-> "PostInteger"]))
         ELSE Err(<<"ParseNumberError", "ExpectedMinusOrDigit", c>>)
    ELSE IF self.tag = "InInteger"
    THEN IF c \in Chr.d0..Chr.d9 THEN Ok(Parsing([tag |-> "InInteger"]))
         ELSE IF c = Chr.dot THEN Ok(Parsing([tag |-> "PreFraction"]))
         ELSE IF c \in {Chr.e, Chr.E}
         THEN Ok(Parsing([tag |-> "PreExponent", signed |-> FALSE]))
         ELSE Ok(StatusDone(<<>>))
    ELSE IF self.tag = "PostInteger"
    THEN NumberMachinePostInteger(c)
    ELSE IF self.tag = "PreFraction"
    THEN IF IsAsciiDigit(c) THEN Ok(Parsing([tag |-> "Fraction"]))
         ELSE Err(<<"ParseNumberError", "ExpectedDigit", c>>)
    ELSE IF self.tag = "Fraction"
    THEN IF c \in Chr.d0..Chr.d9 THEN Ok(Parsing([tag |-> "Fraction"]))
         ELSE IF c \in {Chr.e, Chr.E}
         THEN Ok(Parsing([tag |-> "PreExponent", signed |-> FALSE]))
         ELSE Ok(StatusDone(<<>>))
    ELSE IF self.tag = "PreExponent"
    THEN IF c \in {Chr.minus, Chr.plus} /\ ~self.signed
         THEN Ok(Parsing([tag |-> "PreExponent", signed |-> TRUE]))
         ELSE IF c \in Chr.d0..Chr.d9 THEN Ok(Parsing([tag |-> "Exponent"]))
         ELSE Err(<<"ParseNumberError", "ExpectedSignOrDigit", c>>)
    ELSE \* Exponent
         IF IsAsciiDigit(c) THEN Ok(Parsing([tag |-> "Exponent"]))
         ELSE Ok(StatusDone(<<>>))

\* A valid_end that lets a number end anywhere: a variant the properties
\* below must tell from NumberMachineValidEnd.
NumberMachineValidEndLax(self) == Ok(<<>>)

\* A valid_end that says a sign could follow wherever the number cannot
\* end: a variant the properties below must tell from
\* NumberMachineValidEnd.
NumberMachineValidEndOrSign(self) ==
    IF self.tag \in {"InInteger", "PostInteger", "Fraction", "Exponent"} THEN Ok(<<>>)
    ELSE IF self.tag \in {"Start", "PreFraction"}
    THEN Err(<<"ParseNumberError", "UnexpectedEnd", TRUE>>)
    ELSE Err(<<"ParseNumberError", "UnexpectedEndAfterExponent", TRUE>>)

\* number::Machine::valid_end(self)
NumberMachineValidEnd(self) ==
    IF self.tag \in {"InInteger", "PostInteger", "Fraction", "Exponent"} THEN Ok(<<>>)
    ELSE IF self.tag = "Start"
    THEN Err(<<"ParseNumberError", "UnexpectedEnd", ~self.signed>>)
    ELSE IF self.tag = "PreFraction"
    THEN Err(<<"ParseNumberError", "UnexpectedEnd", FALSE>>)
    ELSE Err(<<"ParseNumberError", "UnexpectedEndAfterExponent", ~self.signed>>)

(***************************************************************************)
(* literal/machine.rs                                                      *)
(***************************************************************************)
\* literal::Machine::apply(self, c); End(v) carries the parsed literal.
LiteralMachineApply(self, c) ==
    LET To(tag) == Ok([tag |-> tag])
        End(v) == Ok([tag |-> "End", v |-> v])
        Bad == Err(<<"ParseLiteralError", "UnexpectedCharacter", c>>)
    IN  IF self.tag = "Start"
        THEN IF IsWhitespace(c) THEN To("Start")
             ELSE IF c = Chr.t THEN To("T")
             ELSE IF c = Chr.f THEN To("F")
             ELSE IF c = Chr.n THEN To("N")
             ELSE Bad
        ELSE IF self.tag = "T" /\ c = Chr.r THEN To("Tr")
        ELSE IF self.tag = "Tr" /\ c = Chr.u THEN To("Tru")
        ELSE IF self.tag = "Tru" /\ c = Chr.e THEN End("True")
        ELSE IF self.tag = "F" /\ c = Chr.a THEN To("Fa")
        ELSE IF self.tag = "Fa" /\ c = Chr.l THEN To("Fal")
        ELSE IF self.tag = "Fal" /\ c = Chr.s THEN To("Fals")
        ELSE IF self.tag = "Fals" /\ c = Chr.e THEN End("False")
        ELSE IF self.tag = "N" /\ c = Chr.u THEN To("Nu")
        ELSE IF self.tag = "Nu" /\ c = Chr.l THEN To("Nul")
        ELSE IF self.tag = "Nul" /\ c = Chr.l THEN End("Null")
        ELSE Bad

(***************************************************************************)
(* array/machine.rs and object/machine.rs                                  *)
(***************************************************************************)
\* A closing bracket that ends the array even after a comma: a variant the
\* properties below must tell from ArrayMachineInClose.
ArrayMachineInCloseLax(postcomma) == Ok([tag |-> "End"])

\* array::Machine::apply, the In arm on `]`.
ArrayMachineInClose(postcomma) ==
    IF postcomma THEN Err(<<"ParseArrayError", "TrailingComma">>)
    ELSE Ok([tag |-> "End"])

\* An array machine whose InvalidElement always says the array could end:
\* a variant the properties below must tell from ArrayMachineApply.
ArrayMachineApplyOrEnd(self, c) ==
    IF self.tag = "In"
    THEN IF IsWhitespace(c) THEN Ok(self)
         ELSE IF c = Chr.rbracket THEN ArrayMachineInClose(self.postcomma)
         ELSE IF ParsePromptGet(c).tag = "Some"
         THEN Ok([tag |-> "Element", element |-> Prompted(ParsePromptGet(c).v)])
         ELSE Err(<<"ParseArrayError", "InvalidElement", c, TRUE>>)
    ELSE IF self.tag = "Element" /\ self.element.tag = "Done"
    THEN IF IsWhitespace(c) THEN Ok(self)
         ELSE IF c = Chr.comma THEN Ok([tag |-> "In", postcomma |-> TRUE])
         ELSE IF c = Chr.rbracket THEN Ok([tag |-> "End"])
         ELSE Err(<<"ParseArrayError", "ExpectedCommaOrEnd", c>>)
    ELSE Panic

\* An array machine that lets an element follow a completed element
\* without a comma: a variant the properties below must tell from
\* ArrayMachineApply.
ArrayMachineApplyJuxtaposed(self, c) ==
    IF self.tag = "In"
    THEN IF IsWhitespace(c) THEN Ok(self)
         ELSE IF c = Chr.rbracket THEN ArrayMachineInClose(self.postcomma)
         ELSE IF ParsePromptGet(c).tag = "Some"
         THEN Ok([tag |-> "Element", element |-> Prompted(ParsePromptGet(c).v)])
         ELSE Err(<<"ParseArrayError", "InvalidElement", c, ~self.postcomma>>)
    ELSE IF self.tag = "Element" /\ self.element.tag = "Done"
    THEN IF IsWhitespace(c) THEN Ok(self)
         ELSE IF c = Chr.comma THEN Ok([tag |-> "In", postcomma |-> TRUE])
         ELSE IF c = Chr.rbracket THEN Ok([tag |-> "End"])
         ELSE IF ParsePromptGet(c).tag = "Some"
         THEN Ok([tag |-> "Element", element |-> Prompted(ParsePromptGet(c).v)])
         ELSE Err(<<"ParseArrayError", "ExpectedCommaOrEnd", c>>)
    ELSE Panic

\* array::Machine::apply(self, c)
ArrayMachineApply(self, c) ==
    IF self.tag = "In"
    THEN IF IsWhitespace(c) THEN Ok(self)
         ELSE IF c = Chr.rbracket THEN ArrayMachineInClose(self.postcomma)
         ELSE IF ParsePromptGet(c).tag = "Some"
         THEN Ok([tag |-> "Element", element |-> Prompted(ParsePromptGet(c).v)])
         ELSE Err(<<"ParseArrayError", "InvalidElement", c, ~self.postcomma>>)
    ELSE IF self.tag = "Element" /\ self.element.tag = "Done"
    THEN IF IsWhitespace(c) THEN Ok(self)
         ELSE IF c = Chr.comma THEN Ok([tag |-> "In", postcomma |-> TRUE])
         ELSE IF c = Chr.rbracket THEN Ok([tag |-> "End"])
         ELSE Err(<<"ParseArrayError", "ExpectedCommaOrEnd", c>>)
    ELSE Panic

\* object::Machine::apply(self, c)
ObjectMachineApply(self, c) ==
    IF self.tag = "In"
    THEN IF IsWhitespace(c) THEN Ok(self)
         ELSE IF c = Chr.quote THEN Ok([tag |-> "Name", name |-> None])
         ELSE IF c = Chr.rbrace
         THEN IF self.postcomma THEN Err(<<"ParseObjectError", "TrailingComma">>)
              ELSE Ok([tag |-> "End"])
         ELSE Err(<<"ParseObjectError", "ExpectedName", c, ~self.postcomma>>)
    ELSE IF self.tag = "Name" /\ self.name.tag = "Some"
    THEN IF IsWhitespace(c) THEN Ok(self)
         ELSE IF c = Chr.colon THEN Ok([tag |-> "PreElement", name |-> self.name.v])
         ELSE Err(<<"ParseObjectError", "ExpectedColon", c>>)
    ELSE IF self.tag = "PreElement"
    THEN IF IsWhitespace(c) THEN Ok(self)
         ELSE IF ParsePromptGet(c).tag = "Some"
         THEN Ok([tag |-> "Element", name |-> self.name,
                  element |-> Prompted(ParsePromptGet(c).v)])
         ELSE Err(<<"ParseObjectError", "InvalidElement", c>>)
    ELSE IF self.tag = "Element" /\ self.element.tag = "Done"
    THEN IF IsWhitespace(c) THEN Ok(self)
         ELSE IF c = Chr.comma THEN Ok([tag |-> "In", postcomma |-> TRUE])
         ELSE IF c = Chr.rbrace THEN Ok([tag |-> "End"])
         ELSE Err(<<"ParseObjectError", "ExpectedCommaOrEnd", c>>)
    ELSE Panic

(***************************************************************************)
(* What an operation has done besides what it returns: `lens` holds, for   *)
(* a next, the length of the cursor's remaining slice at the start of each *)
(* iteration of its loop, and `steps` is, for a finish, the number of      *)
(* times its while loop has gone round (a value was finished), the loops   *)
(* of the finish of its values included.                                   *)
(***************************************************************************)
Lens(r) == IF "lens" \in DOMAIN r THEN r.lens ELSE <<>>
Steps(r) == IF "steps" \in DOMAIN r THEN r.steps ELSE 0

Worked(r, lens, steps) ==
    IF "parent" \in DOMAIN r
    THEN [parent |-> r.parent, self |-> r.self, ret |-> r.ret,
          lens |-> lens, steps |-> steps]
    ELSE [self |-> r.self, ret |-> r.ret, lens |-> lens, steps |-> steps]

\* One more iteration of the loop of a next, entered by `self`, before
\* what r tells.
Iterated(self, r) == Worked(r, <<Len(self.remaining)>> \o Lens(r), Steps(r))

NoWork == [lens |-> <<>>, steps |-> 0]

\* The loops of a finish have gone round n more times before what r tells.
Stepped(n, r) == Worked(r, <<>>, n + Steps(r))

(***************************************************************************)
(* Cursors.  A cursor is a record (a frame); its `parent` field is the     *)
(* frame below it on the stack, passed to each operation as `parent`.      *)
(* An operation returns the frames it may have changed and its result.     *)
(***************************************************************************)
\* Document::new, MultiDocument::new
NewDocument(json) == [type |-> "Document", remaining |-> json, parse_status |-> None]
NewMultiDocument(json) ==
    [type |-> "MultiDocument", remaining |-> json, parse_status |-> Done]

\* A set_remaining that moves the position and forgets to mark the child
\* done: a variant the properties below must tell from SetRemaining.
SetRemainingOnly(self, remaining) == [self EXCEPT !.remaining = remaining]

\* A set_remaining that clears the name of the member an object is in: a
\* variant the properties below must tell from SetRemaining.
SetRemainingUnnamed(self, remaining) ==
    IF self.type = "Document"
    THEN [self EXCEPT !.remaining = remaining, !.parse_status = Some(Done)]
    ELSE IF self.type = "MultiDocument"
    THEN [self EXCEPT !.remaining = remaining, !.parse_status = Done]
    ELSE IF self.machine.tag = "Element" /\ self.type = "Object"
    THEN [self EXCEPT !.remaining = remaining, !.machine.element = Done,
                      !.machine.name = <<>>]
    ELSE IF self.machine.tag = "Element"
    THEN [self EXCEPT !.remaining = remaining, !.machine.element = Done]
    ELSE [self EXCEPT !.remaining = remaining]

\* Parent::set_remaining, dispatched on the parent's type.
SetRemaining(self, remaining) ==
    IF self.type = "Document"
    THEN [self EXCEPT !.remaining = remaining, !.parse_status = Some(Done)]
    ELSE IF self.type = "MultiDocument"
    THEN [self EXCEPT !.remaining = remaining, !.parse_status = Done]
    ELSE IF self.machine.tag = "Element"
    THEN [self EXCEPT !.remaining = remaining, !.machine.element = Done]
    ELSE [self EXCEPT !.remaining = remaining]

\* The loop of String::get from character offset i in state `machine`:
\* Ok(i) with i the offset of the terminating quote.
RECURSIVE StringScan(_, _, _)
StringScanStep(remaining, i, r) ==
    IF r.tag # "Ok" THEN r
    ELSE IF r.v.tag = "Some" THEN StringScan(remaining, i + 1, r.v.v)
    ELSE Ok(i)

StringScan(remaining, i, machine) ==
    IF i >= Len(remaining) THEN Err(<<"ParseStringError", "UnexpectedEnd">>)
    ELSE StringScanStep(remaining, i, StringMachineApply(machine, remaining[i + 1]))

\* A String::get that leaves the closing quote to the parent: a variant the
\* properties below must tell from StringGetAt.
StringGetAtQuote(parent, self, r) ==
    IF r.tag # "Ok" THEN [parent |-> parent, self |-> self, ret |-> r]
    ELSE [parent |-> SetRemaining(parent, SliceFrom(self.remaining, r.v)),
          self |-> self,
          ret |-> Ok(SliceTo(self.remaining, r.v))]

\* A String::get that moves the string cursor itself past the string: a
\* variant the properties below must tell from StringGetAt.
StringGetAtMoving(parent, self, r) ==
    IF r.tag # "Ok" THEN [parent |-> parent, self |-> self, ret |-> r]
    ELSE [parent |-> SetRemaining(parent, SliceFrom(self.remaining, r.v + 1)),
          self |-> [self EXCEPT !.remaining = SliceFrom(@, r.v + 1)],
          ret |-> Ok(SliceTo(self.remaining, r.v))]

\* String::get once the loop has ended with r.
StringGetAt(parent, self, r) ==
    IF r.tag # "Ok" THEN [parent |-> parent, self |-> self, ret |-> r]
    ELSE [parent |-> SetRemaining(parent, SliceFrom(self.remaining, r.v + 1)),
          self |-> self,
          ret |-> Ok(SliceTo(self.remaining, r.v))]

\* String::get
StringGet(parent, self) ==
    StringGetAt(parent, self, StringScan(self.remaining, 0, [tag |-> "In"]))

\* The loop of Number::get: Ok(end).
RECURSIVE NumberScan(_, _, _)
NumberScanEnd(remaining, v) == IF v.tag # "Ok" THEN v ELSE Ok(Len(remaining))

NumberScanStep(remaining, i, r) ==
    IF r.tag # "Ok" THEN r
    ELSE IF r.v.tag = "Parsing" THEN NumberScan(remaining, i + 1, r.v.m)
    ELSE Ok(i)

NumberScan(remaining, i, machine) ==
    IF i >= Len(remaining) THEN NumberScanEnd(remaining, NumberMachineValidEnd(machine))
    ELSE NumberScanStep(remaining, i, NumberMachineApply(machine, remaining[i + 1]))

\* A Number::get that also takes the character that ended the number: a
\* variant the properties below must tell from NumberGetAt.
NumberGetAtPast(parent, self, r) ==
    IF r.tag # "Ok" THEN [parent |-> parent, self |-> self, ret |-> r]
    ELSE [parent |-> SetRemaining(parent, SliceFrom(self.remaining, r.v + 1)),
          self |-> self,
          ret |-> Ok(SliceTo(self.remaining, r.v))]

\* Number::get once the loop has ended with r.
NumberGetAt(parent, self, r) ==
    IF r.tag # "Ok" THEN [parent |-> parent, self |-> self, ret |-> r]
    ELSE [parent |-> SetRemaining(parent, SliceFrom(self.remaining, r.v)),
          self |-> self,
          ret |-> Ok(SliceTo(self.remaining, r.v))]

\* Number::get
NumberGet(parent, self) ==
    NumberGetAt(parent, self,
                NumberScan(self.remaining, 0, [tag |-> "Start", signed |-> FALSE]))

\* The loop of Literal::get: Ok([v, next_i]).
RECURSIVE LiteralScan(_, _, _)
LiteralScanStep(remaining, i, r) ==
    IF r.tag # "Ok" THEN r
    ELSE IF r.v.tag = "End" THEN Ok([v |-> r.v.v, next_i |-> i + 1])
    ELSE LiteralScan(remaining, i + 1, r.v)

LiteralScan(remaining, i, machine) ==
    IF i >= Len(remaining) THEN Err(<<"ParseLiteralError", "UnexpectedEnd">>)
    ELSE LiteralScanStep(remaining, i, LiteralMachineApply(machine, remaining[i + 1]))

\* A Literal::get that leaves the last letter to the parent: a variant the
\* properties below must tell from LiteralGetAt.
LiteralGetAtLast(parent, self, r) ==
    IF r.tag # "Ok" THEN [parent |-> parent, self |-> self, ret |-> r]
    ELSE [parent |-> SetRemaining(parent, SliceFrom(self.remaining, r.v.next_i - 1)),
          self |-> self,
          ret |-> Ok(r.v.v)]

\* Literal::get once the loop has ended with r.
LiteralGetAt(parent, self, r) ==
    IF r.tag # "Ok" THEN [parent |-> parent, self |-> self, ret |-> r]
    ELSE [parent |-> SetRemaining(parent, SliceFrom(self.remaining, r.v.next_i)),
          self |-> self,
          ret |-> Ok(r.v.v)]

\* Literal::get
LiteralGet(parent, self) ==
    LiteralGetAt(parent, self, LiteralScan(self.remaining, 0, [tag |-> "Start"]))

\* Array::next; Ok(Some(child)) carries the child cursor it created.
RECURSIVE ArrayNext(_, _)
\* A loop body that hands the array's remaining slice to the parent when
\* the machine rejects the character: a variant the properties below must
\* tell from ArrayNextApplied.
ArrayNextAppliedNotifying(parent, self, m) ==
    IF m.tag # "Ok"
    THEN [parent |-> SetRemaining(parent, self.remaining), self |-> self, ret |-> m]
    ELSE IF /\ m.v.tag = "Element"
            /\ m.v.element.tag = "Prompted"
            /\ KeepFirst(m.v.element.prompt)
    THEN ArrayNext(parent, [self EXCEPT !.machine = m.v])
    ELSE ArrayNext(parent, [self EXCEPT !.machine = m.v,
                                        !.remaining = SliceFrom(@, 1)])

\* A loop body that takes the rejected character off the array's remaining
\* slice before it returns the error: a variant the properties below must
\* tell from ArrayNextApplied.
ArrayNextAppliedConsuming(parent, self, m) ==
    IF m.tag # "Ok"
    THEN [parent |-> parent, self |-> [self EXCEPT !.remaining = SliceFrom(@, 1)],
          ret |-> m]
    ELSE IF /\ m.v.tag = "Element"
            /\ m.v.element.tag = "Prompted"
            /\ KeepFirst(m.v.element.prompt)
    THEN ArrayNext(parent, [self EXCEPT !.machine = m.v])
    ELSE ArrayNext(parent, [self EXCEPT !.machine = m.v,
                                        !.remaining = SliceFrom(@, 1)])

\* A loop body that goes round again without cutting a comma off the
\* remaining slice: a variant the properties below must tell from
\* ArrayNextApplied.
ArrayNextAppliedKeepingComma(parent, self, m) ==
    IF m.tag # "Ok" THEN [parent |-> parent, self |-> self, ret |-> m]
    ELSE IF \/ /\ m.v.tag = "Element"
               /\ m.v.element.tag = "Prompted"
               /\ KeepFirst(m.v.element.prompt)
            \/ Head(self.remaining) = Chr.comma
    THEN ArrayNext(parent, [self EXCEPT !.machine = m.v])
    ELSE ArrayNext(parent, [self EXCEPT !.machine = m.v,
                                        !.remaining = SliceFrom(@, 1)])

\* The rest of the loop body once the machine has been applied, giving m.
ArrayNextApplied(parent, self, m) ==
    IF m.tag # "Ok" THEN [parent |-> parent, self |-> self, ret |-> m]
    ELSE IF /\ m.v.tag = "Element"
            /\ m.v.element.tag = "Prompted"
            /\ KeepFirst(m.v.element.prompt)
    THEN ArrayNext(parent, [self EXCEPT !.machine = m.v])
    ELSE ArrayNext(parent, [self EXCEPT !.machine = m.v,
                                        !.remaining = SliceFrom(@, 1)])

\* An Array::next that, in state End, hands the parent its remaining slice
\* less one character: a variant the properties below must tell from
\* ArrayNext.
ArrayNextPast(parent, self) ==
    IF self.machine.tag = "Element" /\ self.machine.element.tag = "Prompted"
    THEN [parent |-> parent, self |-> self,
          ret |-> Ok(Some([child |-> Create(self.machine.element.prompt,
                                            self.remaining)]))]
    ELSE IF self.machine.tag = "End"
    THEN [parent |-> SetRemaining(parent, SliceFrom(self.remaining, 1)),
          self |-> self, ret |-> Ok(None)]
    ELSE IF self.remaining = <<>>
    THEN [parent |-> parent, self |-> self,
          ret |-> Err(<<"ParseArrayError", "UnexpectedEnd">>)]
    ELSE ArrayNextApplied(parent, self,
                          ArrayMachineApply(self.machine, Head(self.remaining)))

\* An Array::next that, in state End, applies the next character when there
\* is one: a variant the properties below must tell from ArrayNextLoop.
ArrayNextLoopPastEnd(parent, self) ==
    IF self.machine.tag = "Element" /\ self.machine.element.tag = "Prompted"
    THEN [parent |-> parent, self |-> self,
          ret |-> Ok(Some([child |-> Create(self.machine.element.prompt,
                                            self.remaining)]))]
    ELSE IF self.machine.tag = "End" /\ self.remaining = <<>>
    THEN [parent |-> SetRemaining(parent, self.remaining), self |-> self,
          ret |-> Ok(None)]
    ELSE IF self.remaining = <<>>
    THEN [parent |-> parent, self |-> self,
          ret |-> Err(<<"ParseArrayError", "UnexpectedEnd">>)]
    ELSE ArrayNextApplied(parent, self,
                          ArrayMachineApply(self.machine, Head(self.remaining)))

\* One pass through the body of the loop: it returns, or goes round again.
ArrayNextLoop(parent, self) ==
    IF self.machine.tag = "Element" /\ self.machine.element.tag = "Prompted"
    THEN [parent |-> parent, self |-> self,
          ret |-> Ok(Some([child |-> Create(self.machine.element.prompt,
                                            self.remaining)]))]
    ELSE IF self.machine.tag = "End"
    THEN [parent |-> SetRemaining(parent, self.remaining), self |-> self,
          ret |-> Ok(None)]
    ELSE IF self.remaining = <<>>
    THEN [parent |-> parent, self |-> self,
          ret |-> Err(<<"ParseArrayError", "UnexpectedEnd">>)]
    ELSE ArrayNextApplied(parent, self,
                          ArrayMachineApply(self.machine, Head(self.remaining)))

ArrayNext(parent, self) == Iterated(self, ArrayNextLoop(parent, self))

\* Object::next; Ok(Some([name, child])).
RECURSIVE ObjectNext(_, _)
\* The rest of the loop body once the machine has been applied, giving m.
ObjectNextApplied(parent, self, m) ==
    IF m.tag # "Ok" THEN [parent |-> parent, self |-> self, ret |-> m]
    ELSE IF /\ m.v.tag = "Element"
            /\ m.v.element.tag = "Prompted"
            /\ KeepFirst(m.v.element.prompt)
    THEN ObjectNext(parent, [self EXCEPT !.machine = m.v])
    ELSE ObjectNext(parent, [self EXCEPT !.machine = m.v,
                                         !.remaining = SliceFrom(@, 1)])

\* A loop body that takes the end of the input for the end of the object:
\* a variant the properties below must tell from ObjectNextChar.
ObjectNextCharEnding(parent, self) ==
    IF self.remaining = <<>>
    THEN [parent |-> SetRemaining(parent, self.remaining), self |-> self,
          ret |-> Ok(None)]
    ELSE ObjectNextApplied(parent, self,
                           ObjectMachineApply(self.machine, Head(self.remaining)))

\* The loop body after the match on the machine: one character applied.
ObjectNextChar(parent, self) ==
    IF self.remaining = <<>>
    THEN [parent |-> parent, self |-> self,
          ret |-> Err(<<"ParseObjectError", "UnexpectedEnd">>)]
    ELSE ObjectNextApplied(parent, self,
                           ObjectMachineApply(self.machine, Head(self.remaining)))

\* A Name(None) arm that keeps the closing quote in the name: a variant the
\* properties below must tell from ObjectNextName.
ObjectNextNameWithQuote(parent, self, name) ==
    IF name.ret.tag = "Err"
    THEN [parent |-> parent, self |-> self,
          ret |-> Err(<<"ParseObjectError", "InvalidName", name.ret.e>>)]
    ELSE IF name.ret.tag # "Ok"
    THEN [parent |-> parent, self |-> self, ret |-> name.ret]
    ELSE ObjectNextChar(parent,
                        [name.parent EXCEPT
                            !.machine = [tag |-> "Name",
                                         name |-> Some(name.ret.v \o <<Chr.quote>>)]])

\* A Name(None) arm that returns the error of the name as the String
\* cursor gave it: a variant the properties below must tell from
\* ObjectNextName.
ObjectNextNameUnwrapped(parent, self, name) ==
    IF name.ret.tag # "Ok"
    THEN [parent |-> parent, self |-> self, ret |-> name.ret]
    ELSE ObjectNextChar(parent,
                        [name.parent EXCEPT
                            !.machine = [tag |-> "Name", name |-> Some(name.ret.v)]])

\* The Name(None) arm: `name` is what String::get on a string cursor whose
\* parent is this object has returned.
ObjectNextName(parent, self, name) ==
    IF name.ret.tag = "Err"
    THEN [parent |-> parent, self |-> self,
          ret |-> Err(<<"ParseObjectError", "InvalidName", name.ret.e>>)]
    ELSE IF name.ret.tag # "Ok"
    THEN [parent |-> parent, self |-> self, ret |-> name.ret]
    ELSE ObjectNextChar(parent,
                        [name.parent EXCEPT
                            !.machine = [tag |-> "Name", name |-> Some(name.ret.v)]])

\* One pass through the body of the loop: it returns, or goes round again.
ObjectNextLoop(parent, self) ==
    IF self.machine.tag = "Name" /\ self.machine.name.tag = "None"
    THEN ObjectNextName(parent, self,
                        StringGet(self, [type |-> "String",
                                         remaining |-> self.remaining]))
    ELSE IF self.machine.tag = "Element" /\ self.machine.element.tag = "Prompted"
    THEN [parent |-> parent, self |-> self,
          ret |-> Ok(Some([name |-> self.machine.name,
                           child |-> Create(self.machine.element.prompt,
                                            self.remaining)]))]
    ELSE IF self.machine.tag = "End"
    THEN [parent |-> SetRemaining(parent, self.remaining), self |-> self,
          ret |-> Ok(None)]
    ELSE ObjectNextChar(parent, self)

ObjectNext(parent, self) == Iterated(self, ObjectNextLoop(parent, self))

\* Document::next (a Document has no parent).
RECURSIVE DocumentNext(_)
\* One pass through the body of the loop: it returns, or goes round again.
DocumentNextLoop(self) ==
    IF self.parse_status.tag = "Some" /\ self.parse_status.v.tag = "Prompted"
    THEN [self |-> self,
          ret |-> Ok(Some([child |-> Create(self.parse_status.v.prompt,
                                            self.remaining)]))]
    ELSE IF self.remaining = <<>>
    THEN [self |-> self,
          ret |-> IF self.parse_status.tag = "Some" THEN Ok(None)
                  ELSE Err(<<"ParseDocumentError", "UnexpectedEnd">>)]
    ELSE IF IsWhitespace(Head(self.remaining))
    THEN DocumentNext([self EXCEPT !.remaining = SliceFrom(@, 1)])
    ELSE IF self.parse_status.tag = "Some"
    THEN [self |-> self,
          ret |-> Err(<<"ParseDocumentError", "UnexpectedCharacter",
                        Head(self.remaining)>>)]
    ELSE IF ParsePromptGet(Head(self.remaining)).tag = "Some"
    THEN IF KeepFirst(ParsePromptGet(Head(self.remaining)).v)
         THEN DocumentNext(
                  [self EXCEPT !.parse_status =
                       Some(Prompted(ParsePromptGet(Head(self.remaining)).v))])
         ELSE DocumentNext(
                  [self EXCEPT !.parse_status =
                       Some(Prompted(ParsePromptGet(Head(self.remaining)).v)),
                               !.remaining = SliceFrom(@, 1)])
    ELSE [self |-> self,
          ret |-> Err(<<"ParseDocumentError", "InvalidElement",
                        Head(self.remaining)>>)]

DocumentNext(self) == Iterated(self, DocumentNextLoop(self))

\* MultiDocument::next
RECURSIVE MultiDocumentNext(_)
\* One pass through the body of the loop: it returns, or goes round again.
MultiDocumentNextLoop(self) ==
    IF self.parse_status.tag = "Prompted"
    THEN [self |-> self,
          ret |-> Ok(Some([child |-> Create(self.parse_status.prompt,
                                            self.remaining)]))]
    ELSE IF self.remaining = <<>> THEN [self |-> self, ret |-> Ok(None)]
    ELSE IF IsWhitespace(Head(self.remaining))
    THEN MultiDocumentNext([self EXCEPT !.remaining = SliceFrom(@, 1)])
    ELSE IF ParsePromptGet(Head(self.remaining)).tag = "Some"
    THEN IF KeepFirst(ParsePromptGet(Head(self.remaining)).v)
         THEN MultiDocumentNext(
                  [self EXCEPT !.parse_status =
                       Prompted(ParsePromptGet(Head(self.remaining)).v)])
         ELSE MultiDocumentNext(
                  [self EXCEPT !.parse_status =
                       Prompted(ParsePromptGet(Head(self.remaining)).v),
                               !.remaining = SliceFrom(@, 1)])
    ELSE [self |-> self,
          ret |-> Err(<<"ParseMultiDocumentError", "InvalidElement",
                        Head(self.remaining)>>)]

MultiDocumentNext(self) == Iterated(self, MultiDocumentNextLoop(self))

(***************************************************************************)
(* finish: drive a cursor to completion, discarding the values.            *)
(***************************************************************************)
\* From<Parse*Error> for ParseAnyError, applied by `?`.
IntoAny(kind, ret) ==
    IF ret.tag = "Err" THEN Err(<<"ParseAnyError", kind, ret.e>>) ELSE ret

\* .map(drop)
MapDrop(r) == [r EXCEPT !.ret = IF @.tag = "Ok" THEN Ok(<<>>) ELSE @]

\* String::finish, Number::finish, Literal::finish
StringFinish(parent, self) == MapDrop(StringGet(parent, self))
NumberFinish(parent, self) == MapDrop(NumberGet(parent, self))
LiteralFinish(parent, self) == MapDrop(LiteralGet(parent, self))

\* Any::finish, Array::finish and Object::finish.  In the loop of a finish,
\* r is what next has returned and f what the child's finish has returned.
RECURSIVE AnyFinish(_, _)
RECURSIVE ArrayFinish(_, _)
RECURSIVE ObjectFinish(_, _)
ArrayFinishChild(r, f) ==
    Stepped(Steps(f) + (IF f.ret.tag = "Ok" THEN 1 ELSE 0),
            IF f.ret.tag # "Ok"
            THEN [parent |-> r.parent, self |-> f.parent, ret |-> f.ret]
            ELSE ArrayFinish(r.parent, f.parent))

ArrayFinishNext(r) ==
    IF r.ret.tag # "Ok" THEN [r EXCEPT !.ret = IntoAny("Array", @)]
    ELSE IF r.ret.v.tag = "None" THEN [r EXCEPT !.ret = Ok(<<>>)]
    ELSE ArrayFinishChild(r, AnyFinish(r.self, r.ret.v.v.child))

\* An Array::finish that takes a child left unfinished for a finished one:
\* a variant the properties below must tell from ArrayFinish.
ArrayFinishForgetting(parent, self) ==
    ArrayFinishNext(ArrayNext(parent,
                              IF self.machine.tag = "Element"
                              THEN [self EXCEPT !.machine.element = Done]
                              ELSE self))

ArrayFinish(parent, self) == ArrayFinishNext(ArrayNext(parent, self))

ObjectFinishChild(r, f) ==
    Stepped(Steps(f) + (IF f.ret.tag = "Ok" THEN 1 ELSE 0),
            IF f.ret.tag # "Ok"
            THEN [parent |-> r.parent, self |-> f.parent, ret |-> f.ret]
            ELSE ObjectFinish(r.parent, f.parent))

ObjectFinishNext(r) ==
    IF r.ret.tag # "Ok" THEN [r EXCEPT !.ret = IntoAny("Object", @)]
    ELSE IF r.ret.v.tag = "None" THEN [r EXCEPT !.ret = Ok(<<>>)]
    ELSE ObjectFinishChild(r, AnyFinish(r.self, r.ret.v.v.child))

ObjectFinish(parent, self) == ObjectFinishNext(ObjectNext(parent, self))

AnyFinish(parent, self) ==
    IF self.type = "String"
    THEN [StringFinish(parent, self) EXCEPT !.ret = IntoAny("String", @)]
    ELSE IF self.type = "Number"
    THEN [NumberFinish(parent, self) EXCEPT !.ret = IntoAny("Number", @)]
    ELSE IF self.type = "Literal"
    THEN [LiteralFinish(parent, self) EXCEPT !.ret = IntoAny("Literal", @)]
    ELSE IF self.type = "Object" THEN ObjectFinish(parent, self)
    ELSE ArrayFinish(parent, self)

\* From<ParseDocumentError> and From<ParseAnyError> for ParseAnyDocumentError.
IntoAnyDocument(kind, ret) ==
    IF ret.tag = "Err" THEN Err(<<"ParseAnyDocumentError", kind, ret.e>>) ELSE ret

\* Document::finish
RECURSIVE DocumentFinish(_)
DocumentFinishChild(f) ==
    Stepped(Steps(f) + (IF f.ret.tag = "Ok" THEN 1 ELSE 0),
            IF f.ret.tag # "Ok"
            THEN [self |-> f.parent, ret |-> IntoAnyDocument("Any", f.ret)]
            ELSE DocumentFinish(f.parent))

DocumentFinishNext(r) ==
    IF r.ret.tag # "Ok" THEN [r EXCEPT !.ret = IntoAnyDocument("Document", @)]
    ELSE IF r.ret.v.tag = "None" THEN [r EXCEPT !.ret = Ok(<<>>)]
    ELSE DocumentFinishChild(AnyFinish(r.self, r.ret.v.v.child))

DocumentFinish(self) == DocumentFinishNext(DocumentNext(self))

\* From<...> for ParseAnyMultiDocumentError.
IntoAnyMultiDocument(kind, ret) ==
    IF ret.tag = "Err" THEN Err(<<"ParseAnyMultiDocumentError", kind, ret.e>>) ELSE ret

\* MultiDocument::finish
RECURSIVE MultiDocumentFinish(_)
MultiDocumentFinishChild(f) ==
    Stepped(Steps(f) + (IF f.ret.tag = "Ok" THEN 1 ELSE 0),
            IF f.ret.tag # "Ok"
            THEN [self |-> f.parent, ret |-> IntoAnyMultiDocument("Any", f.ret)]
            ELSE MultiDocumentFinish(f.parent))

MultiDocumentFinishNext(r) ==
    IF r.ret.tag # "Ok"
    THEN [r EXCEPT !.ret = IntoAnyMultiDocument("MultiDocument", @)]
    ELSE IF r.ret.v.tag = "None" THEN [r EXCEPT !.ret = Ok(<<>>)]
    ELSE MultiDocumentFinishChild(AnyFinish(r.self, r.ret.v.v.child))

MultiDocumentFinish(self) == MultiDocumentFinishNext(MultiDocumentNext(self))

(***************************************************************************)
(* for_each, fold and find: next, the callback f, finish, in a loop.  A    *)
(* callback is given by what it does with the element before it returns    *)
(* (leave it, finish it, or pull from it once) and, for find, by the call  *)
(* at which it returns Some (0: never); fold's f appends the element to    *)
(* the accumulator.  `seen` is the list of the elements f was called on.   *)
(***************************************************************************)
Traversals == {"for_each", "fold", "find"}
Callbacks(helper) ==
    [does : {"leave", "finish", "pull"}, hit : IF helper = "find" THEN 1..2 ELSE {0}]

\* self.next() of the four cursors that have the helpers; a root has no
\* parent.
NextOf(parent, self) ==
    IF self.type = "Array" THEN ArrayNext(parent, self)
    ELSE IF self.type = "Object" THEN ObjectNext(parent, self)
    ELSE IF self.type = "Document"
    THEN [parent |-> parent, self |-> DocumentNext(self).self,
          ret |-> DocumentNext(self).ret]
    ELSE [parent |-> parent, self |-> MultiDocumentNext(self).self,
          ret |-> MultiDocumentNext(self).ret]

\* The `?` on self.next() and on f(..) and value.finish(): From for the
\* error type of the helper.
FromNext(type, ret) ==
    IF type = "Document" THEN IntoAnyDocument("Document", ret)
    ELSE IF type = "MultiDocument" THEN IntoAnyMultiDocument("MultiDocument", ret)
    ELSE IntoAny(type, ret)
FromAny(type, ret) ==
    IF type = "Document" THEN IntoAnyDocument("Any", ret)
    ELSE IF type = "MultiDocument" THEN IntoAnyMultiDocument("Any", ret)
    ELSE ret

\* A call of next whose result the callback throws away.
Pulled(type, r) ==
    [r EXCEPT !.ret = IF @.tag = "Ok" THEN Ok(<<>>) ELSE IntoAny(type, @)]

\* f(&mut value): the cursor `self` of the element under `parent`.
CallbackDoes(does, parent, self) ==
    IF does = "leave" THEN [parent |-> parent, self |-> self, ret |-> Ok(<<>>)]
    ELSE IF does = "pull" /\ self.type = "Array"
    THEN Pulled("Array", ArrayNext(parent, self))
    ELSE IF does = "pull" /\ self.type = "Object"
    THEN Pulled("Object", ObjectNext(parent, self))
    ELSE AnyFinish(parent, self)

\* What next has yielded, as the callback receives it.
Yielded(v) ==
    IF "name" \in DOMAIN v THEN [name |-> v.name, child |-> v.child]
    ELSE [name |-> <<>>, child |-> v.child]

\* The accumulator of fold after f was called on the elements of seen.
Accumulated(seen) == [acc |-> seen]

\* The value the helper returns at its end.
AtEnd(helper, seen) ==
    IF helper = "find" THEN Ok(None)
    ELSE IF helper = "fold" THEN Ok(Accumulated(seen))
    ELSE Ok(<<>>)

RECURSIVE Traverse(_, _, _, _, _)
\* After value.finish() has returned fin.
TraverseFinished(helper, f, grand, seen, fin) ==
    IF fin.ret.tag # "Ok"
    THEN [parent |-> grand, self |-> fin.parent,
          ret |-> FromAny(fin.parent.type, fin.ret), seen |-> seen]
    ELSE IF helper = "find" /\ f.hit = Len(seen)
    THEN [parent |-> grand, self |-> fin.parent,
          ret |-> Ok(Some(seen[Len(seen)])), seen |-> seen]
    ELSE Traverse(helper, f, grand, fin.parent, seen)

\* After f has returned g, were find to return at a Some without finishing
\* the element.
TraverseCalledUnfinished(helper, f, grand, seen, g) ==
    IF g.ret.tag # "Ok"
    THEN [parent |-> grand, self |-> g.parent,
          ret |-> FromAny(g.parent.type, g.ret), seen |-> seen]
    ELSE IF helper = "find" /\ f.hit = Len(seen)
    THEN [parent |-> grand, self |-> g.parent,
          ret |-> Ok(Some(seen[Len(seen)])), seen |-> seen]
    ELSE TraverseFinished(helper, f, grand, seen, AnyFinish(g.parent, g.self))

\* After f has returned g.
TraverseCalled(helper, f, grand, seen, g) ==
    IF g.ret.tag # "Ok"
    THEN [parent |-> grand, self |-> g.parent,
          ret |-> FromAny(g.parent.type, g.ret), seen |-> seen]
    ELSE TraverseFinished(helper, f, grand, seen, AnyFinish(g.parent, g.self))

\* After self.next() has returned r.
TraverseNext(helper, f, seen, r) ==
    IF r.ret.tag # "Ok"
    THEN [parent |-> r.parent, self |-> r.self,
          ret |-> FromNext(r.self.type, r.ret), seen |-> seen]
    ELSE IF r.ret.v.tag = "None"
    THEN [parent |-> r.parent, self |-> r.self, ret |-> AtEnd(helper, seen),
          seen |-> seen]
    ELSE TraverseCalled(helper, f, r.parent, Append(seen, Yielded(r.ret.v.v)),
                        CallbackDoes(f.does, r.self, r.ret.v.v.child))

\* for_each, fold, find of Array, Object, Document and MultiDocument.
Traverse(helper, f, parent, self, seen) ==
    TraverseNext(helper, f, seen, NextOf(parent, self))

(***************************************************************************)
(* string/parsed.rs                                                        *)
(***************************************************************************)
\* Chars::next, the loop over an escape: the character, or a panic.
RECURSIVE CharsEscape(_, _, _)
CharsEscapeStep(json, i, r) ==
    IF r.tag # "Ok" THEN [ret |-> Panic, i |-> i + 1]  \* expect(...)
    ELSE IF r.v.tag = "Parsing" THEN CharsEscape(json, i + 1, r.v.m)
    ELSE [ret |-> Some(r.v.r), i |-> i + 1]

CharsEscape(json, i, machine) ==
    IF i >= Len(json) THEN [ret |-> Panic, i |-> i]  \* panic!("ran out of characters")
    ELSE CharsEscapeStep(json, i, EscapeMachineApply(machine, json[i + 1]))

\* Chars::next, were it to take the character after a backslash as it
\* stands unless it is a u: a variant the properties below must tell from
\* CharsNext.
CharsNextVerbatim(json, i) ==
    IF i >= Len(json) THEN [ret |-> None, i |-> i]
    ELSE IF json[i + 1] # Chr.backslash THEN [ret |-> Some(json[i + 1]), i |-> i + 1]
    ELSE IF i + 1 < Len(json) /\ json[i + 2] # Chr.u
    THEN [ret |-> Some(json[i + 2]), i |-> i + 2]
    ELSE CharsEscape(json, i + 1, [tag |-> "Awaiting"])

\* Chars::next with i characters of json taken: the item and the new i.
CharsNext(json, i) ==
    IF i >= Len(json) THEN [ret |-> None, i |-> i]
    ELSE IF json[i + 1] # Chr.backslash THEN [ret |-> Some(json[i + 1]), i |-> i + 1]
    ELSE CharsEscape(json, i + 1, [tag |-> "Awaiting"])

\* self.chars().collect()
RECURSIVE CharsCollect(_, _, _)
CharsCollectItem(json, n, out) ==
    IF n.ret.tag = "None" THEN Value(out)
    ELSE IF n.ret.tag = "Panic" THEN Panic
    ELSE CharsCollect(json, n.i, Append(out, n.ret.v))

CharsCollect(json, i, out) == CharsCollectItem(json, CharsNext(json, i), out)

\* ParsedString::escaped
ParsedStringEscaped(self) == CharsCollect(self, 0, <<>>)

\* ParsedString::chars: the iterator is the slice still to be read.
ParsedStringChars(self) == self

\* char::len_utf8
LenUtf8(c) ==
    IF c < 128 THEN 1 ELSE IF c < 2048 THEN 2 ELSE IF c < 65536 THEN 3 ELSE 4

\* str::len: the length in bytes.
RECURSIVE StrLen(_)
StrLen(s) == IF s = <<>> THEN 0 ELSE LenUtf8(Head(s)) + StrLen(Tail(s))

SizeHint(min, max) == [tag |-> "SizeHint", min |-> min, max |-> Some(max)]

\* A size_hint that counts four bytes to a character at most, whatever is
\* left: a variant the properties below must tell from CharsSizeHintOf.
CharsSizeHintOfPlain(bytes) == SizeHint((bytes + 3) \div 4, bytes)

\* Chars::size_hint, once the bytes left are counted.
CharsSizeHintOf(bytes) ==
    SizeHint(IF bytes < 6 THEN (bytes + 3) \div 4
             ELSE IF bytes < 12 THEN (bytes + 5) \div 6
             ELSE (bytes + 11) \div 12,
             bytes)

\* Chars::size_hint
CharsSizeHint(self) == CharsSizeHintOf(StrLen(self))

(***************************************************************************)
(* number/parsed.rs                                                        *)
(***************************************************************************)
\* ParsedNumber::as_str
ParsedNumberAsStr(self) == self

\* The integer types of as_impl!, by name; the model keeps the two narrow
\* widths, the macro body being the same for every width.
IntTypes ==
    { [name |-> "ParsedNumber::as_u8", signed |-> FALSE, bits |-> 8],
      [name |-> "ParsedNumber::as_u16", signed |-> FALSE, bits |-> 16],
      [name |-> "ParsedNumber::as_i8", signed |-> TRUE, bits |-> 8],
      [name |-> "ParsedNumber::as_i16", signed |-> TRUE, bits |-> 16] }

\* <$t>::MIN and <$t>::MAX
IntMin(t) == IF t.signed THEN 0 - 2 ^ (t.bits - 1) ELSE 0
IntMax(t) == IF t.signed THEN 2 ^ (t.bits - 1) - 1 ELSE 2 ^ t.bits - 1

\* <$t as FromStr>::from_str on the digits from offset i: checked_mul by ten
\* then checked_add (checked_sub when negative) of each digit.
RECURSIVE FromStrDigits(_, _, _, _, _)
FromStrDigit(s, i, next, positive, t) ==
    IF next > IntMax(t) \/ next < IntMin(t) THEN None
    ELSE FromStrDigits(s, i + 1, next, positive, t)

FromStrDigits(s, i, acc, positive, t) ==
    IF i >= Len(s) THEN Some(acc)
    ELSE IF ~IsAsciiDigit(s[i + 1]) THEN None
    ELSE FromStrDigit(s, i,
                      IF positive THEN acc * 10 + (s[i + 1] - 48)
                      ELSE acc * 10 - (s[i + 1] - 48),
                      positive, t)

\* An integer that takes any text for zero: a variant the properties below
\* must tell from FromStr.
FromStrZero(s, t) == Some(0)

\* self.json.parse().ok(): <$t as FromStr>::from_str, its error dropped.
FromStr(s, t) ==
    IF s = <<>> \/ s = <<Chr.plus>> \/ s = <<Chr.minus>> THEN None
    ELSE IF s[1] = Chr.plus THEN FromStrDigits(s, 1, 0, TRUE, t)
    ELSE IF s[1] = Chr.minus /\ t.signed THEN FromStrDigits(s, 1, 0, FALSE, t)
    ELSE FromStrDigits(s, 0, 0, TRUE, t)

\* as_impl!: ParsedNumber::as_u8, as_u16, as_i8, as_i16
ParsedNumberAs(self, t) == FromStr(self, t)

(***************************************************************************)
(* The state: the input, the stack of live cursors (the root first), the   *)
(* last call with the stack before it and what it returned (for a call on  *)
(* a parsed view, the view; for a call that repeats a failed call, the     *)
(* error of that call; for a call on a cursor that the call before had     *)
(* completed, that call; for a helper, the callback and the elements it    *)
(* was called on), what the caller has seen of the root so far and,        *)
(* for each live cursor but the root, its parent as it was when the cursor *)
(* was created.                                                            *)
(***************************************************************************)
VARIABLES json, stack, last, hist, origin

vars == <<json, stack, last, hist, origin>>

depth == Len(stack)
top == stack[depth]

IsNext(call) ==
    call \in {"Document::next", "MultiDocument::next", "Array::next", "Object::next"}

IsRootFinish(call) == call \in {"Document::finish", "MultiDocument::finish"}

IsFind(call) ==
    call \in {"Document::find", "MultiDocument::find", "Array::find", "Object::find"}

\* The call completed its cursor: get, finish, for_each or fold succeeded,
\* or next or find returned None.
Completes(call, ret) ==
    /\ ret.tag = "Ok"
    /\ (IsNext(call) \/ IsFind(call)) => ret.v.tag = "None"

YieldsValue(call, ret) == IsNext(call) /\ ret.tag = "Ok" /\ ret.v.tag = "Some"

\* The stack after a call on the top cursor returned r: the frames it
\* changed and, when a `next` returned Some, the child cursor on top.
AfterCall(call, r) ==
    LET base == IF depth = 1 THEN <<r.self>>
                ELSE [stack EXCEPT ![depth - 1] = r.parent, ![depth] = r.self]
    IN  IF YieldsValue(call, r.ret) THEN Append(base, r.ret.v.v.child) ELSE base

\* What the caller has seen: how many top-level values have been completed
\* through their cursors, whether the value last yielded by the root is still
\* incomplete, and how a finish of the root has ended, if one was called.
Seen(call, ret) ==
    [done |-> IF depth = 2 /\ Completes(call, ret) /\ hist.open
              THEN hist.done + 1 ELSE hist.done,
     open |-> IF depth = 1 /\ YieldsValue(call, ret) THEN TRUE
              ELSE IF depth = 2 /\ Completes(call, ret) THEN FALSE
              ELSE hist.open,
     finished |-> IF depth = 1 /\ IsRootFinish(call)
                  THEN (IF ret.tag = "Ok" /\ hist.finished # "err" THEN "ok" ELSE "err")
                  ELSE hist.finished]

\* Some(e) when the call repeats, on the same cursor, the call before it,
\* which returned the error e; None otherwise.
Repeats(call) ==
    IF last.call = call /\ last.depth = depth /\ last.ret.tag = "Err"
    THEN Some(last.ret) ELSE None

\* Some of the call before and its result when that call was made on the
\* cursor now called and completed it; None otherwise.
CompletedBefore ==
    IF /\ last.depth = depth
       /\ last.call \notin {"new", "drop"}
       /\ last.log = None
       /\ Completes(last.call, last.ret)
    THEN Some([call |-> last.call, ret |-> last.ret]) ELSE None

\* What a call on the top cursor leaves behind: r holds the frames it changed
\* and its result.
Return(call, r) ==
    /\ stack' = AfterCall(call, r)
    /\ last' = [call |-> call, depth |-> depth, before |-> stack, was |-> hist,
                ret |-> r.ret, view |-> <<>>, again |-> Repeats(call),
                done |-> CompletedBefore, log |-> None,
                work |-> [lens |-> Lens(r), steps |-> Steps(r)]]
    /\ hist' = Seen(call, r.ret)
    /\ origin' = IF YieldsValue(call, r.ret) THEN Append(origin, r.self) ELSE origin
    /\ UNCHANGED json

\* What the caller has seen after a helper of the root has returned r: the
\* elements f was called on have been finished when r is no error.
SeenTraversal(call, r) ==
    IF depth > 1 THEN Seen(call, r.ret)
    ELSE [done |-> IF r.ret.tag = "Ok" THEN hist.done + Len(r.seen) ELSE hist.done,
          open |-> IF r.ret.tag = "Ok" THEN FALSE ELSE hist.open,
          finished |-> IF r.ret.tag # "Ok" \/ hist.finished = "err" THEN "err"
                       ELSE IF Completes(call, r.ret) THEN "ok"
                       ELSE "part"]

\* What a helper called with the callback f on the top cursor leaves
\* behind.
ReturnTraversal(call, f, r) ==
    /\ stack' = AfterCall(call, r)
    /\ last' = [call |-> call, depth |-> depth, before |-> stack, was |-> hist,
                ret |-> r.ret, view |-> <<>>, again |-> None, done |-> None,
                log |-> Some([f |-> f, seen |-> r.seen]), work |-> NoWork]
    /\ hist' = SeenTraversal(call, r)
    /\ UNCHANGED <<json, origin>>

CallDocumentNext ==
    /\ depth = 1 /\ top.type = "Document"
    /\ Return("Document::next", DocumentNext(top))

CallDocumentFinish ==
    /\ depth = 1 /\ top.type = "Document"
    /\ Return("Document::finish", DocumentFinish(top))

CallMultiDocumentNext ==
    /\ depth = 1 /\ top.type = "MultiDocument"
    /\ Return("MultiDocument::next", MultiDocumentNext(top))

CallMultiDocumentFinish ==
    /\ depth = 1 /\ top.type = "MultiDocument"
    /\ Return("MultiDocument::finish", MultiDocumentFinish(top))

CallArrayNext ==
    /\ depth > 1 /\ top.type = "Array"
    /\ Return("Array::next", ArrayNext(stack[depth - 1], top))

CallArrayFinish ==
    /\ depth > 1 /\ top.type = "Array"
    /\ Return("Array::finish", ArrayFinish(stack[depth - 1], top))

CallObjectNext ==
    /\ depth > 1 /\ top.type = "Object"
    /\ Return("Object::next", ObjectNext(stack[depth - 1], top))

CallObjectFinish ==
    /\ depth > 1 /\ top.type = "Object"
    /\ Return("Object::finish", ObjectFinish(stack[depth - 1], top))

CallStringGet ==
    /\ depth > 1 /\ top.type = "String"
    /\ Return("String::get", StringGet(stack[depth - 1], top))

CallStringFinish ==
    /\ depth > 1 /\ top.type = "String"
    /\ Return("String::finish", StringFinish(stack[depth - 1], top))

CallNumberGet ==
    /\ depth > 1 /\ top.type = "Number"
    /\ Return("Number::get", NumberGet(stack[depth - 1], top))

CallNumberFinish ==
    /\ depth > 1 /\ top.type = "Number"
    /\ Return("Number::finish", NumberFinish(stack[depth - 1], top))

CallLiteralGet ==
    /\ depth > 1 /\ top.type = "Literal"
    /\ Return("Literal::get", LiteralGet(stack[depth - 1], top))

CallLiteralFinish ==
    /\ depth > 1 /\ top.type = "Literal"
    /\ Return("Literal::finish", LiteralFinish(stack[depth - 1], top))

NumberViewCalls == {"ParsedNumber::as_str"} \cup { t.name : t \in IntTypes }

\* The caller holds a ParsedNumber: the one Number::get has just returned,
\* or the one the last call was made on (the view is Copy).
HoldsNumber ==
    \/ last.call = "Number::get" /\ last.ret.tag = "Ok"
    \/ last.call \in NumberViewCalls
HeldNumber == IF last.call = "Number::get" THEN last.ret.v ELSE last.view

\* What a call on a parsed view leaves behind: no cursor moves.
ReturnView(call, view, ret) ==
    /\ last' = [call |-> call, depth |-> depth, before |-> stack, was |-> hist,
                ret |-> ret, view |-> view, again |-> None, done |-> None, log |-> None,
                work |-> NoWork]
    /\ UNCHANGED <<json, stack, hist, origin>>

CallParsedNumberAsStr ==
    /\ HoldsNumber
    /\ ReturnView("ParsedNumber::as_str", HeldNumber, Value(ParsedNumberAsStr(HeldNumber)))

CallParsedNumberAs ==
    /\ HoldsNumber
    /\ \E t \in IntTypes : ReturnView(t.name, HeldNumber, ParsedNumberAs(HeldNumber, t))

StringViewCalls == {"ParsedString::escaped"}

\* The caller holds a ParsedString: the one String::get has just returned,
\* the name Object::next has just returned with a value, or the one the
\* last call was made on.
HoldsString ==
    \/ last.call = "String::get" /\ last.ret.tag = "Ok"
    \/ last.call = "Object::next" /\ YieldsValue(last.call, last.ret)
    \/ last.call \in StringViewCalls
HeldString ==
    IF last.call = "String::get" THEN last.ret.v
    ELSE IF last.call = "Object::next" THEN last.ret.v.v.name
    ELSE last.view

CallParsedStringEscaped ==
    /\ HoldsString
    /\ ReturnView("ParsedString::escaped", HeldString, ParsedStringEscaped(HeldString))

CharsCalls == {"ParsedString::chars", "Chars::next", "Chars::size_hint"}

\* The caller holds a Chars iterator, which no call has unwound: the one
\* chars has just returned, or the one the last call was made on.  The
\* view is then the slice the iterator has still to read.
HoldsChars == last.call \in CharsCalls /\ last.ret.tag # "Panic"
HeldChars == last.view

CallParsedStringChars ==
    /\ HoldsString
    /\ ReturnView("ParsedString::chars", ParsedStringChars(HeldString), Value(<<>>))

\* Chars::next moves the iterator past the item it returns.
CallCharsNext ==
    /\ HoldsChars
    /\ ReturnView("Chars::next", SliceFrom(HeldChars, CharsNext(HeldChars, 0).i),
                  CharsNext(HeldChars, 0).ret)

CallCharsSizeHint ==
    /\ HoldsChars
    /\ ReturnView("Chars::size_hint", HeldChars, CharsSizeHint(HeldChars))

\* The caller lets go of the top cursor: its parent can be called again.
Drop ==
    /\ depth > 1
    /\ stack' = SubSeq(stack, 1, depth - 1)
    /\ last' = [call |-> "drop", depth |-> depth, before |-> stack, was |-> hist,
                ret |-> Ok(<<>>), view |-> <<>>, again |-> None, done |-> None, log |-> None,
                work |-> NoWork]
    /\ origin' = SubSeq(origin, 1, depth - 1)
    /\ UNCHANGED <<json, hist>>

(***************************************************************************)
(* Inputs.  Well-formed values are generated up to a number of nodes (a    *)
(* scalar or a container is one node), streams of values up to a number of *)
(* values, and scalars of every shape are put at each kind of position;    *)
(* the smaller values are then damaged by one edit: an insertion, a        *)
(* deletion or a truncation.                                               *)
(***************************************************************************)
MaxNodes == 3
MaxEditedNodes == 2
MaxValues == 2

Quoted(body) == <<Chr.quote>> \o body \o <<Chr.quote>>
Escape(c) == <<Chr.backslash, c>>
Unicode(h1, h2, h3, h4) == <<Chr.backslash, Chr.u, h1, h2, h3, h4>>
Bracketed(x) == <<Chr.lbracket>> \o x \o <<Chr.rbracket>>
Braced(x) == <<Chr.lbrace>> \o x \o <<Chr.rbrace>>
Key == Quoted(<<Chr.k>>) \o <<Chr.colon>>
Null == <<Chr.n, Chr.u, Chr.l, Chr.l>>

Scalars == { <<Chr.d1>>, Quoted(<<Chr.s>>), Null }
\* The scalars of the values that are edited.
EditedScalars == { <<Chr.d1>>, Quoted(<<Chr.s>>) }

\* Values of at most n nodes over the scalars sc; Elements and Members are
\* the non-empty contents of an array and of an object of at most n nodes
\* in all.
RECURSIVE Values(_, _)
RECURSIVE Elements(_, _)
RECURSIVE Members(_, _)
Values(sc, n) ==
    IF n = 0 THEN {}
    ELSE sc
         \cup { Bracketed(e) : e \in {<<>>} \cup Elements(sc, n - 1) }
         \cup { Braced(m) : m \in {<<>>} \cup Members(sc, n - 1) }

Elements(sc, n) ==
    IF n = 0 THEN {}
    ELSE Values(sc, n)
         \cup UNION { { v \o <<Chr.comma>> \o e :
                          v \in Values(sc, i), e \in Elements(sc, n - i) }
                      : i \in 1..(n - 1) }

Members(sc, n) ==
    IF n = 0 THEN {}
    ELSE { Key \o v : v \in Values(sc, n) }
         \cup UNION { { Key \o v \o <<Chr.comma>> \o m :
                          v \in Values(sc, i), m \in Members(sc, n - i) }
                      : i \in 1..(n - 1) }

\* Streams of at most n values, with or without a space after each.
StreamValues == Scalars \cup { Bracketed(<<>>), Braced(<<>>) }
RECURSIVE Streams(_)
Streams(n) ==
    IF n = 0 THEN { <<>> }
    ELSE { <<>> } \cup { v \o sep \o t : v \in StreamValues,
                                         sep \in { <<>>, <<Chr.space>> },
                                         t \in Streams(n - 1) }

\* Scalars of every shape, well-formed or not.
Strings ==
    { Quoted(body) : body \in
        { <<>>, <<Chr.eacute>>, <<Chr.tab>>, <<Chr.lf>>, <<Chr.grin, Chr.a>>,
          Escape(Chr.quote), Escape(Chr.backslash), Escape(Chr.slash),
          Escape(Chr.n), Escape(Chr.x),
          Escape(Chr.b) \o Escape(Chr.f) \o Escape(Chr.r),
          <<Chr.a>> \o Escape(Chr.quote) \o <<Chr.b>>,
          Escape(Chr.backslash) \o Escape(Chr.quote),
          Unicode(Chr.d0, Chr.d0, Chr.e, Chr.d9),
          Unicode(Chr.d0, Chr.d0, Chr.E, Chr.x),
          Unicode(Chr.d, Chr.d8, Chr.d3, Chr.d) \o Unicode(Chr.d, Chr.e, Chr.d0, Chr.d0),
          Unicode(Chr.D, Chr.d8, Chr.d3, Chr.D) \o Unicode(Chr.D, Chr.C, Chr.d0, Chr.d0),
          Unicode(Chr.d, Chr.d8, Chr.d3, Chr.d),
          Unicode(Chr.d, Chr.d8, Chr.d3, Chr.d) \o <<Chr.x>>,
          Unicode(Chr.d, Chr.d8, Chr.d3, Chr.d) \o Escape(Chr.n),
          Unicode(Chr.d, Chr.d8, Chr.d3, Chr.d) \o Unicode(Chr.d0, Chr.d0, Chr.e, Chr.d9),
          Unicode(Chr.d, Chr.d8, Chr.d3, Chr.d) \o Unicode(Chr.d, Chr.e, Chr.x, Chr.d0),
          Unicode(Chr.d, Chr.c, Chr.d0, Chr.d0),
          Unicode(Chr.d, Chr.f, Chr.f, Chr.f),
          \* the first and the last of the high and of the low surrogates
          Unicode(Chr.d, Chr.d8, Chr.d0, Chr.d0) \o Unicode(Chr.d, Chr.c, Chr.d0, Chr.d0),
          Unicode(Chr.d, Chr.d8, Chr.d0, Chr.d0) \o Unicode(Chr.d, Chr.f, Chr.f, Chr.f),
          Unicode(Chr.D, Chr.B, Chr.F, Chr.F) \o Unicode(Chr.D, Chr.C, Chr.d0, Chr.d0),
          Unicode(Chr.D, Chr.B, Chr.F, Chr.F) \o Unicode(Chr.D, Chr.F, Chr.F, Chr.F),
          <<Chr.a>> \o Unicode(Chr.d, Chr.b, Chr.f, Chr.f)
                   \o Unicode(Chr.d, Chr.f, Chr.f, Chr.f) \o Escape(Chr.t),
          \* seven, eleven and thirteen bytes
          <<Chr.a>> \o Unicode(Chr.d0, Chr.d0, Chr.e, Chr.d9),
          Unicode(Chr.d0, Chr.d0, Chr.e, Chr.d9) \o <<Chr.grin, Chr.a>>,
          <<Chr.a>> \o Unicode(Chr.d, Chr.d8, Chr.d3, Chr.d)
                   \o Unicode(Chr.d, Chr.e, Chr.d0, Chr.d0) } }

Numbers ==
    { <<Chr.d0>>, <<Chr.minus, Chr.d1>>, <<Chr.minus, Chr.d0>>, <<Chr.d1, Chr.d0>>,
      <<Chr.d1, Chr.dot, Chr.d5>>, <<Chr.d1, Chr.dot, Chr.d0, Chr.d5>>,
      <<Chr.d1, Chr.e, Chr.d1>>, <<Chr.d1, Chr.E, Chr.plus, Chr.d1>>,
      <<Chr.d1, Chr.e, Chr.minus, Chr.d0, Chr.d1>>,
      <<Chr.minus, Chr.d0, Chr.dot, Chr.d5, Chr.e, Chr.plus, Chr.d1, Chr.d0>>,
      <<Chr.d0, Chr.d1>>, <<Chr.minus, Chr.d0, Chr.d1, Chr.d2>>, <<Chr.d0, Chr.d0>>,
      <<Chr.d0, Chr.dot, Chr.d0, Chr.d1>>,
      <<Chr.d1, Chr.dot>>, <<Chr.d1, Chr.e>>, <<Chr.d1, Chr.e, Chr.plus>>,
      <<Chr.minus>>, <<Chr.minus, Chr.minus, Chr.d1>>, <<Chr.plus, Chr.d1>>,
      <<Chr.dot, Chr.d5>>, <<Chr.d1, Chr.dot, Chr.e, Chr.d1>>,
      <<Chr.d1, Chr.e, Chr.plus, Chr.minus, Chr.d1>>,
      \* at the limits of the integer types
      <<Chr.d1, Chr.d2, Chr.d7>>, <<Chr.d1, Chr.d2, Chr.d8>>,
      <<Chr.minus, Chr.d1, Chr.d2, Chr.d8>>, <<Chr.minus, Chr.d1, Chr.d2, Chr.d9>>,
      <<Chr.d2, Chr.d5, Chr.d5>>, <<Chr.d2, Chr.d5, Chr.d6>>,
      <<Chr.d3, Chr.d2, Chr.d7, Chr.d6, Chr.d7>>, <<Chr.d3, Chr.d2, Chr.d7, Chr.d6, Chr.d8>>,
      <<Chr.minus, Chr.d3, Chr.d2, Chr.d7, Chr.d6, Chr.d8>>,
      <<Chr.minus, Chr.d3, Chr.d2, Chr.d7, Chr.d6, Chr.d9>>,
      <<Chr.d6, Chr.d5, Chr.d5, Chr.d3, Chr.d5>>, <<Chr.d6, Chr.d5, Chr.d5, Chr.d3, Chr.d6>>,
      <<Chr.d1, Chr.d0, Chr.d0, Chr.d0, Chr.d0, Chr.d0, Chr.d0>> }

Literals ==
    { <<Chr.t, Chr.r, Chr.u, Chr.e>>, <<Chr.f, Chr.a, Chr.l, Chr.s, Chr.e>>, Null,
      <<Chr.n, Chr.u, Chr.l>>, <<Chr.n, Chr.u, Chr.l, Chr.L>>,
      <<Chr.T, Chr.r, Chr.u, Chr.e>>, <<Chr.t, Chr.r, Chr.u, Chr.e, Chr.x>>,
      <<Chr.f, Chr.a, Chr.l, Chr.s>> }

Prefixes(t) == { SubSeq(t, 1, p) : p \in 0..Len(t) }

\* A scalar at each kind of position, and cut short.
Placed(x) ==
    { x, <<Chr.space>> \o x \o <<Chr.lf>>, Bracketed(x), Braced(Key \o x),
      Bracketed(<<Chr.d1, Chr.comma>> \o x), x \o <<Chr.space>> \o x }
    \cup Prefixes(x)

\* One edit of a text.
EditChars ==
    { Chr.lbracket, Chr.rbracket, Chr.rbrace, Chr.comma, Chr.colon,
      Chr.quote, Chr.d0, Chr.x, Chr.tab, Chr.nbsp }
Insertions ==
    { <<c>> : c \in EditChars }
    \cup { <<Chr.tab, c>> : c \in { Chr.rbracket, Chr.rbrace, Chr.d0, Chr.x } }
    \cup { <<Chr.comma, Chr.tab>>, <<Chr.nbsp, Chr.lbracket>> }
Edits(t) ==
    { SubSeq(t, 1, p) \o m \o SubSeq(t, p + 1, Len(t)) : p \in 0..Len(t), m \in Insertions }
    \cup { SubSeq(t, 1, p - 1) \o SubSeq(t, p + 1, Len(t)) : p \in 1..Len(t) }
    \cup Prefixes(t)

\* Texts of whitespace alone.
Blanks == { <<Chr.space>>, <<Chr.nbsp>>, <<Chr.tab, Chr.lf>>, <<Chr.cr, Chr.space>> }

\* An object with a member, a comma, and then no name.
NoNames ==
    { Braced(Key \o <<Chr.d1, Chr.comma>> \o m)
        : m \in { <<Chr.x>>, <<Chr.space, Chr.d1>>, <<Chr.tab, Chr.colon>> } }

\* An object with two members under different names.
TwoNames ==
    { Braced(Key \o <<Chr.d1, Chr.comma, Chr.space>> \o Quoted(<<Chr.a, Chr.b>>)
             \o <<Chr.tab, Chr.colon>> \o v)
        : v \in { Null, Bracketed(<<>>), Quoted(<<Chr.s>>) } }

\* A container cut after a comma, and in the name that follows it.
CutAfterComma ==
    { <<Chr.lbracket, Chr.d1, Chr.comma>>,
      <<Chr.lbracket, Chr.d1, Chr.tab, Chr.comma, Chr.space>>,
      <<Chr.lbrace>> \o Key \o <<Chr.d1, Chr.comma>>,
      <<Chr.lbrace>> \o Key \o <<Chr.d1, Chr.comma, Chr.space, Chr.quote, Chr.a>> }

\* An object whose member name has an escape in it, and one whose member
\* name has a backslash before a character that makes no escape.
EscapedNames ==
    { Braced(Quoted(n) \o <<Chr.colon, Chr.d1>>)
        : n \in { Escape(Chr.n) \o <<Chr.a>>,
                  <<Chr.a>> \o Escape(Chr.x),
                  Unicode(Chr.d0, Chr.d0, Chr.e, Chr.d9) } }

\* The texts the helpers are tried on.
Traversed ==
    Values(Scalars, MaxNodes)
    \cup Blanks
    \cup NoNames
    \cup TwoNames
    \cup Streams(MaxValues)

Texts ==
    Traversed
    \cup CutAfterComma
    \cup EscapedNames
    \cup UNION { Placed(x) : x \in Strings \cup Numbers \cup Literals }
    \cup UNION { Edits(t) : t \in Values(EditedScalars, MaxEditedNodes) }

\* The helper `helper`, under the name `call`, with the callback f.
CallTraversal(helper, call, f) ==
    ReturnTraversal(call, f,
                    Traverse(helper, f, IF depth = 1 THEN None ELSE stack[depth - 1],
                             top, <<>>))

CallDocumentForEach ==
    /\ top.type = "Document" /\ json \in Traversed
    /\ \E f \in Callbacks("for_each") : CallTraversal("for_each", "Document::for_each", f)

CallDocumentFold ==
    /\ top.type = "Document" /\ json \in Traversed
    /\ \E f \in Callbacks("fold") : CallTraversal("fold", "Document::fold", f)

CallDocumentFind ==
    /\ top.type = "Document" /\ json \in Traversed
    /\ \E f \in Callbacks("find") : CallTraversal("find", "Document::find", f)

CallMultiDocumentForEach ==
    /\ top.type = "MultiDocument" /\ json \in Traversed
    /\ \E f \in Callbacks("for_each") : CallTraversal("for_each", "MultiDocument::for_each", f)

CallMultiDocumentFold ==
    /\ top.type = "MultiDocument" /\ json \in Traversed
    /\ \E f \in Callbacks("fold") : CallTraversal("fold", "MultiDocument::fold", f)

CallMultiDocumentFind ==
    /\ top.type = "MultiDocument" /\ json \in Traversed
    /\ \E f \in Callbacks("find") : CallTraversal("find", "MultiDocument::find", f)

CallArrayForEach ==
    /\ top.type = "Array" /\ json \in Traversed
    /\ \E f \in Callbacks("for_each") : CallTraversal("for_each", "Array::for_each", f)

CallArrayFold ==
    /\ top.type = "Array" /\ json \in Traversed
    /\ \E f \in Callbacks("fold") : CallTraversal("fold", "Array::fold", f)

CallArrayFind ==
    /\ top.type = "Array" /\ json \in Traversed
    /\ \E f \in Callbacks("find") : CallTraversal("find", "Array::find", f)

CallObjectForEach ==
    /\ top.type = "Object" /\ json \in Traversed
    /\ \E f \in Callbacks("for_each") : CallTraversal("for_each", "Object::for_each", f)

CallObjectFold ==
    /\ top.type = "Object" /\ json \in Traversed
    /\ \E f \in Callbacks("fold") : CallTraversal("fold", "Object::fold", f)

CallObjectFind ==
    /\ top.type = "Object" /\ json \in Traversed
    /\ \E f \in Callbacks("find") : CallTraversal("find", "Object::find", f)

NothingSeen == [done |-> 0, open |-> FALSE, finished |-> "no"]

Roots == { "Document", "MultiDocument" }
New(root, text) == IF root = "Document" THEN NewDocument(text) ELSE NewMultiDocument(text)

Init ==
    /\ json \in Texts
    /\ \E root \in Roots : stack = <<New(root, json)>>
    /\ hist = NothingSeen
    /\ origin = <<None>>
    /\ last = [call |-> "new", depth |-> 0, before |-> <<>>, was |-> NothingSeen,
               ret |-> Ok(<<>>), view |-> <<>>, again |-> None, done |-> None, log |-> None,
               work |-> NoWork]

Next ==
    \/ CallDocumentNext \/ CallDocumentFinish
    \/ CallMultiDocumentNext \/ CallMultiDocumentFinish
    \/ CallArrayNext \/ CallArrayFinish
    \/ CallObjectNext \/ CallObjectFinish
    \/ CallStringGet \/ CallStringFinish
    \/ CallNumberGet \/ CallNumberFinish
    \/ CallLiteralGet \/ CallLiteralFinish
    \/ CallDocumentForEach \/ CallDocumentFold \/ CallDocumentFind
    \/ CallMultiDocumentForEach \/ CallMultiDocumentFold \/ CallMultiDocumentFind
    \/ CallArrayForEach \/ CallArrayFold \/ CallArrayFind
    \/ CallObjectForEach \/ CallObjectFold \/ CallObjectFind
    \/ CallParsedNumberAsStr \/ CallParsedNumberAs
    \/ CallParsedStringEscaped
    \/ CallParsedStringChars \/ CallCharsNext \/ CallCharsSizeHint
    \/ Drop

Spec == Init /\ [][Next]_vars


(***************************************************************************)
(* The grammar of RFC 8259 as a recogniser, written from the RFC and not   *)
(* from the parser.  An offset counts the characters before a position; a  *)
(* recogniser returns the offset after what it has matched, or -1.  `opt`  *)
(* holds the whitespace class and whether \u escapes of surrogates must    *)
(* come in pairs (the ABNF itself does not ask for it).                    *)
(***************************************************************************)
JsonWhitespace == {9, 10, 13, 32}
UnicodeWhitespace ==
    (9..13) \cup {32, 133, 160, 5760, 8232, 8233, 8239, 8287, 12288} \cup (8192..8202)

Strict == [ws |-> JsonWhitespace, paired |-> TRUE]
StrictAbnf == [ws |-> JsonWhitespace, paired |-> FALSE]
LenientAbnf == [ws |-> UnicodeWhitespace, paired |-> FALSE]
Lenient == [ws |-> UnicodeWhitespace, paired |-> TRUE]

Digits == 48..57
StartsValue(c) == c \in Digits \cup {34, 45, 91, 123, 116, 102, 110}

RECURSIVE RefSkip(_, _, _)
RefSkip(s, i, ws) ==
    IF i < Len(s) /\ s[i + 1] \in ws THEN RefSkip(s, i + 1, ws) ELSE i

RefHex(c) ==
    IF c \in 48..57 THEN c - 48
    ELSE IF c \in 97..102 THEN c - 87
    ELSE IF c \in 65..70 THEN c - 55
    ELSE -1

\* The value of the four hex digits after offset i, or -1.
RefHex4(s, i) ==
    IF i + 4 > Len(s) \/ \E n \in 1..4 : RefHex(s[i + n]) = -1 THEN -1
    ELSE RefHex(s[i + 1]) * 4096 + RefHex(s[i + 2]) * 256
         + RefHex(s[i + 3]) * 16 + RefHex(s[i + 4])

\* The characters of a string from offset i, up to and with the closing quote.
RECURSIVE RefChars(_, _, _)
RefChars(s, i, paired) ==
    IF i >= Len(s) THEN -1
    ELSE IF s[i + 1] = 34 THEN i + 1
    ELSE IF s[i + 1] < 32 THEN -1
    ELSE IF s[i + 1] # 92 THEN RefChars(s, i + 1, paired)
    ELSE IF i + 1 >= Len(s) THEN -1
    ELSE IF s[i + 2] \in {34, 92, 47, 98, 102, 110, 114, 116}
    THEN RefChars(s, i + 2, paired)
    ELSE IF s[i + 2] # 117 THEN -1
    ELSE LET h == RefHex4(s, i + 2) IN
         IF h = -1 THEN -1
         ELSE IF ~paired \/ h \notin 55296..57343 THEN RefChars(s, i + 6, paired)
         ELSE IF h >= 56320 THEN -1
         ELSE IF /\ i + 8 <= Len(s)
                 /\ s[i + 7] = 92
                 /\ s[i + 8] = 117
                 /\ RefHex4(s, i + 8) \in 56320..57343
         THEN RefChars(s, i + 12, paired)
         ELSE -1

RECURSIVE RefDigits(_, _)
RefDigits(s, i) == IF i < Len(s) /\ s[i + 1] \in Digits THEN RefDigits(s, i + 1) ELSE i

RefInt(s, i) ==
    LET j == IF i < Len(s) /\ s[i + 1] = 45 THEN i + 1 ELSE i IN
    IF j >= Len(s) THEN -1
    ELSE IF s[j + 1] = 48 THEN j + 1
    ELSE IF s[j + 1] \in 49..57 THEN RefDigits(s, j + 1)
    ELSE -1

RefFrac(s, i) ==
    IF i < Len(s) /\ s[i + 1] = 46
    THEN (IF RefDigits(s, i + 1) > i + 1 THEN RefDigits(s, i + 1) ELSE -1)
    ELSE i

RefExp(s, i) ==
    IF i < Len(s) /\ s[i + 1] \in {101, 69}
    THEN LET j == IF i + 1 < Len(s) /\ s[i + 2] \in {43, 45} THEN i + 2 ELSE i + 1 IN
         IF RefDigits(s, j) > j THEN RefDigits(s, j) ELSE -1
    ELSE i

RefNumber(s, i) ==
    LET a == RefInt(s, i) IN
    IF a = -1 THEN -1
    ELSE LET b == RefFrac(s, a) IN
         IF b = -1 THEN -1 ELSE RefExp(s, b)

RefWord(s, i, w) ==
    IF i + Len(w) <= Len(s) /\ SubSeq(s, i + 1, i + Len(w)) = w THEN i + Len(w) ELSE -1

RefLiteral(s, i) ==
    IF RefWord(s, i, <<116, 114, 117, 101>>) # -1 THEN i + 4
    ELSE IF RefWord(s, i, <<102, 97, 108, 115, 101>>) # -1 THEN i + 5
    ELSE RefWord(s, i, <<110, 117, 108, 108>>)

RECURSIVE RefValue(_, _, _)
RECURSIVE RefElements(_, _, _)
RECURSIVE RefMembers(_, _, _)
\* A value that starts at offset i.
RefValue(s, i, opt) ==
    IF i >= Len(s) THEN -1
    ELSE IF s[i + 1] = 34 THEN RefChars(s, i + 1, opt.paired)
    ELSE IF s[i + 1] = 91
    THEN LET j == RefSkip(s, i + 1, opt.ws) IN
         IF j < Len(s) /\ s[j + 1] = 93 THEN j + 1 ELSE RefElements(s, j, opt)
    ELSE IF s[i + 1] = 123
    THEN LET j == RefSkip(s, i + 1, opt.ws) IN
         IF j < Len(s) /\ s[j + 1] = 125 THEN j + 1 ELSE RefMembers(s, j, opt)
    ELSE IF s[i + 1] \in {116, 102, 110} THEN RefLiteral(s, i)
    ELSE RefNumber(s, i)

\* After a value that ends at offset e: the closing bracket or one more.
RefElements(s, i, opt) ==
    LET e == RefValue(s, i, opt) IN
    IF e = -1 THEN -1
    ELSE LET j == RefSkip(s, e, opt.ws) IN
         IF j >= Len(s) THEN -1
         ELSE IF s[j + 1] = 93 THEN j + 1
         ELSE IF s[j + 1] = 44 THEN RefElements(s, RefSkip(s, j + 1, opt.ws), opt)
         ELSE -1

RefMembers(s, i, opt) ==
    IF i >= Len(s) \/ s[i + 1] # 34 THEN -1
    ELSE LET n == RefChars(s, i + 1, opt.paired) IN
         IF n = -1 THEN -1
         ELSE LET c == RefSkip(s, n, opt.ws) IN
              IF c >= Len(s) \/ s[c + 1] # 58 THEN -1
              ELSE LET e == RefValue(s, RefSkip(s, c + 1, opt.ws), opt) IN
                   IF e = -1 THEN -1
                   ELSE LET j == RefSkip(s, e, opt.ws) IN
                        IF j >= Len(s) THEN -1
                        ELSE IF s[j + 1] = 125 THEN j + 1
                        ELSE IF s[j + 1] = 44
                        THEN RefMembers(s, RefSkip(s, j + 1, opt.ws), opt)
                        ELSE -1

\* JSON-text = ws value ws
RefJson(s, opt) ==
    LET e == RefValue(s, RefSkip(s, 0, opt.ws), opt) IN
    e # -1 /\ RefSkip(s, e, opt.ws) = Len(s)

\* The offsets where the values of a stream start, in order, closed by -1
\* where something that is no value starts.
RECURSIVE RefSplit(_, _, _)
RefSplit(s, i, opt) ==
    LET j == RefSkip(s, i, opt.ws) IN
    IF j >= Len(s) THEN <<>>
    ELSE LET e == RefValue(s, j, opt) IN
         IF e = -1 THEN <<-1>> ELSE <<j>> \o RefSplit(s, e, opt)

\* The kind of value a character starts, and whether the cursor of that
\* kind starts on that character or after it.
ValueKind(c) ==
    IF c = 34 THEN "String"
    ELSE IF c = 91 THEN "Array"
    ELSE IF c = 123 THEN "Object"
    ELSE IF c \in {116, 102, 110} THEN "Literal"
    ELSE "Number"
StartsOnFirst(kind) == kind \in {"Number", "Literal"}

(***************************************************************************)
(* What the properties read from the state.                                *)
(***************************************************************************)
IsDocument == stack[1].type = "Document"
IsMultiDocument == stack[1].type = "MultiDocument"

\* The root has reported the end of the input without error.
RootEnded ==
    /\ last.depth = 1
    /\ last.ret.tag = "Ok"
    /\ IsRootFinish(last.call) \/ (IsNext(last.call) /\ last.ret.v.tag = "None")

\* The root's value was completed before the last call.
ValueCompleted == last.was.done > 0 \/ last.was.finished = "ok"

\* The cursor the last call was made on, as it was before the call.
Called == last.before[last.depth]

\* The cursor has yielded a child that has not completed.
Pending(cursor) ==
    IF cursor.type = "Document"
    THEN cursor.parse_status.tag = "Some" /\ cursor.parse_status.v.tag = "Prompted"
    ELSE IF cursor.type = "MultiDocument"
    THEN cursor.parse_status.tag = "Prompted"
    ELSE IF cursor.type \in {"Array", "Object"}
    THEN cursor.machine.tag = "Element" /\ cursor.machine.element.tag = "Prompted"
    ELSE FALSE

\* The characters of the input the cursor has behind it.
Consumed(cursor) == Len(json) - Len(cursor.remaining)

\* The child cursor stands where a value of its kind starts in the input.
ChildAtValue(child) ==
    IF StartsOnFirst(child.type)
    THEN /\ child.remaining # <<>>
         /\ ValueKind(Head(child.remaining)) = child.type
         /\ StartsValue(Head(child.remaining))
    ELSE /\ Consumed(child) > 0
         /\ ValueKind(json[Consumed(child)]) = child.type

(***************************************************************************)
(* C1.  For every well-formed JSON text, every step of a walk of a         *)
(* Document over it (next, get and finish on the cursors, in any order the *)
(* borrows allow, and Document::finish) returns without error, and when    *)
(* the Document reports the end its remaining slice is empty.  As written, *)
(* for every text of the RFC 8259 grammar, the statement fails: the        *)
(* grammar admits a \u escape of a lone surrogate and the parser rejects   *)
(* it.  It holds for the well-formed texts whose surrogate escapes are     *)
(* paired.                                                                 *)
(***************************************************************************)
WalkIsClean ==
    /\ last.ret.tag \notin {"Err", "Panic"}
    /\ RootEnded => stack[1].remaining = <<>>

WellFormedWalk == (IsDocument /\ RefJson(json, Strict)) => WalkIsClean

WellFormedWalkAbnf == (IsDocument /\ RefJson(json, StrictAbnf)) => WalkIsClean

WellFormedWalkWitness ==
    /\ IsDocument /\ RefJson(json, Strict)
    /\ last.call = "Document::next" /\ RootEnded
    /\ last.was.done > 0
    /\ \E i \in 1..Len(json) : json[i] = Chr.comma
    /\ \E i \in 1..Len(json) : json[i] = Chr.colon

(***************************************************************************)
(* C2.  Every text a walk of a Document accepts to its end is a text of    *)
(* the RFC 8259 grammar, whitespace taken as the Unicode class.  It is     *)
(* not: a string with a raw control character in it is accepted.           *)
(***************************************************************************)
AcceptsOnlyJson == (IsDocument /\ RootEnded) => RefJson(json, LenientAbnf)

AfterTheValue ==
    (IsDocument /\ last.call = "Document::next" /\ ValueCompleted)
        => LET rem == last.before[1].remaining
               i == RefSkip(rem, 0, UnicodeWhitespace)
           IN  IF i = Len(rem) THEN last.ret = Ok(None)
               ELSE last.ret = Err(<<"ParseDocumentError", "UnexpectedCharacter",
                                     rem[i + 1]>>)

AfterTheValueWitness ==
    /\ IsDocument /\ last.call = "Document::next" /\ last.was.done > 0
    /\ last.ret.tag = "Err"
    /\ Head(last.before[1].remaining) \in UnicodeWhitespace
    /\ StartsValue(last.ret.e[3])

(***************************************************************************)
(* C5.  Before the Document has seen a value, Document::next returns       *)
(* UnexpectedEnd exactly when the input has no character that is no        *)
(* whitespace, and InvalidElement(c) exactly when the first such character *)
(* c does not start a value; otherwise it yields a cursor.                 *)
(***************************************************************************)
BeforeTheValue ==
    (IsDocument /\ last.call = "Document::next"
                /\ last.before[1].parse_status.tag = "None")
        => LET rem == last.before[1].remaining
               i == RefSkip(rem, 0, UnicodeWhitespace)
           IN  IF i = Len(rem)
               THEN last.ret = Err(<<"ParseDocumentError", "UnexpectedEnd">>)
               ELSE IF ~StartsValue(rem[i + 1])
               THEN last.ret = Err(<<"ParseDocumentError", "InvalidElement", rem[i + 1]>>)
               ELSE YieldsValue(last.call, last.ret)

BeforeTheValueWitness ==
    /\ IsDocument /\ last.call = "Document::next"
    /\ last.before[1].parse_status.tag = "None"
    /\ last.ret.tag = "Err"
    /\ last.ret.e[2] = "InvalidElement"
    /\ Head(last.before[1].remaining) \in UnicodeWhitespace

(***************************************************************************)
(* C6.  When each value it yields is completed before the next call,       *)
(* MultiDocument::next yields the top-level values of a stream of values   *)
(* in source order, a cursor of the value's kind standing at the value,    *)
(* whether or not whitespace separates them, and then None; on an empty    *)
(* or whitespace-only input the first call returns None.                   *)
(***************************************************************************)
YieldsInOrder ==
    LET split == RefSplit(json, 0, Lenient)
        k == last.was.done
    IN  (/\ IsMultiDocument /\ last.call = "MultiDocument::next"
         /\ ~last.was.open /\ last.was.finished = "no"
         /\ \A n \in DOMAIN split : split[n] # -1)
            => IF k < Len(split)
               THEN /\ YieldsValue(last.call, last.ret)
                    /\ top.type = ValueKind(json[split[k + 1] + 1])
                    /\ top.remaining =
                           SubSeq(json,
                                  split[k + 1] + (IF StartsOnFirst(top.type) THEN 1 ELSE 2),
                                  Len(json))
               ELSE last.ret = Ok(None)

YieldsInOrderWitness ==
    /\ IsMultiDocument /\ last.call = "MultiDocument::next"
    /\ ~last.was.open /\ last.was.finished = "no"
    /\ \A n \in DOMAIN RefSplit(json, 0, Lenient) : RefSplit(json, 0, Lenient)[n] # -1
    /\ last.was.done = 1
    /\ YieldsValue(last.call, last.ret)
    /\ \A i \in 1..Len(json) : json[i] \notin UnicodeWhitespace

(***************************************************************************)
(* C7.  A parent cannot be advanced while the child it last yielded is     *)
(* unfinished: its next is rejected as an error, and its position does     *)
(* not move until the child has completed.  As written the statement       *)
(* fails: only the call made while the child is alive is rejected (by the  *)
(* borrow: here, only the top cursor can be called); once the unfinished   *)
(* child is dropped, next is no error.  What holds: that next yields a     *)
(* cursor for the same value again and leaves the parent as it was, and    *)
(* the position of a cursor below the one called moves only in a call      *)
(* that completes its child.                                               *)
(***************************************************************************)
UnfinishedChildYieldedAgain ==
    /\ (IsNext(last.call) /\ Pending(Called))
           => /\ YieldsValue(last.call, last.ret)
              /\ stack[last.depth] = Called
              /\ top.remaining = Called.remaining
              /\ ChildAtValue(top)
    /\ \A d \in 1..(last.depth - 1) :
           stack[d].remaining # last.before[d].remaining
               => d = last.depth - 1 /\ Completes(last.call, last.ret)

UnfinishedChildRejected ==
    (IsNext(last.call) /\ Pending(Called)) => last.ret.tag = "Err"

UnfinishedChildWitness ==
    /\ last.call = "Array::next" /\ Pending(Called)
    /\ last.depth > 2
    /\ Called.remaining # <<>>

(***************************************************************************)
(* C8.  In an Array or an Object, a closing bracket reached after a comma, *)
(* with only whitespace between them, makes next return TrailingComma; a   *)
(* closing bracket reached before any element or directly after a          *)
(* completed element ends the container without error.                     *)
(***************************************************************************)
Closing(type) == IF type = "Array" THEN Chr.rbracket ELSE Chr.rbrace
TrailingComma(type) ==
    IF type = "Array" THEN Err(<<"ParseArrayError", "TrailingComma">>)
    ELSE Err(<<"ParseObjectError", "TrailingComma">>)

\* The index of the last character at or before index p that is no
\* whitespace, 0 when there is none.
RECURSIVE PrevNonWhitespace(_, _)
PrevNonWhitespace(s, p) ==
    IF p = 0 THEN 0
    ELSE IF s[p] \in UnicodeWhitespace THEN PrevNonWhitespace(s, p - 1)
    ELSE p

\* The called container is between its elements, as the last call found it.
BetweenElements ==
    /\ last.call \in {"Array::next", "Object::next"}
    /\ \/ Called.machine.tag = "In"
       \/ Called.machine.tag = "Element" /\ Called.machine.element.tag = "Done"

\* The offset in the called container's remaining slice of the next
\* character that is no whitespace, one comma after a completed element
\* passed over.
PastComma ==
    LET rem == Called.remaining
        i == RefSkip(rem, 0, UnicodeWhitespace)
    IN  IF Called.machine.tag = "Element" /\ i < Len(rem) /\ rem[i + 1] = Chr.comma
        THEN RefSkip(rem, i + 1, UnicodeWhitespace)
        ELSE i

\* That character is the container's closing bracket.
AtClosing ==
    /\ BetweenElements
    /\ PastComma < Len(Called.remaining)
    /\ Called.remaining[PastComma + 1] = Closing(Called.type)

\* The index in the input of that closing bracket.
ClosingAt == Consumed(Called) + PastComma + 1

AfterComma ==
    LET p == PrevNonWhitespace(json, ClosingAt - 1) IN p > 0 /\ json[p] = Chr.comma

ClosingBracket ==
    AtClosing => IF AfterComma THEN last.ret = TrailingComma(Called.type)
                 ELSE last.ret = Ok(None)

ClosingBracketWitness ==
    /\ AtClosing /\ AfterComma
    /\ last.call = "Object::next"
    /\ Called.machine.tag = "Element"
    /\ json[ClosingAt - 1] \in UnicodeWhitespace
    /\ last.ret.tag = "Err"

(***************************************************************************)
(* C9.  A number written with a leading zero followed by a digit, at a     *)
(* value position, is rejected through Document, MultiDocument, Array or   *)
(* Object: the parse of a text that has one never completes successfully.  *)
(* As written the statement fails: at the top level of a MultiDocument     *)
(* `01` is the two values `0` and `1`.  It holds for a Document, and for   *)
(* a leading zero inside an array or an object under either root.          *)
(***************************************************************************)
\* Whether the character at index p lies inside a string, scanning from
\* index i, `inside` telling whether index i does.
RECURSIVE InsideString(_, _, _, _)
InsideString(s, p, i, inside) ==
    IF i >= p THEN inside
    ELSE IF inside /\ s[i] = Chr.backslash
    THEN (IF i + 1 >= p THEN TRUE ELSE InsideString(s, p, i + 2, TRUE))
    ELSE IF s[i] = Chr.quote THEN InsideString(s, p, i + 1, ~inside)
    ELSE InsideString(s, p, i + 1, inside)

\* The brackets open at index p: those opened less those closed before it.
RECURSIVE Nesting(_, _)
Nesting(s, p) ==
    IF p <= 1 THEN 0
    ELSE Nesting(s, p - 1)
         + (IF InsideString(s, p - 1, 1, FALSE) THEN 0
            ELSE IF s[p - 1] \in {Chr.lbracket, Chr.lbrace} THEN 1
            ELSE IF s[p - 1] \in {Chr.rbracket, Chr.rbrace} THEN -1
            ELSE 0)

\* A zero at index p that a digit follows, where a value may start.
LeadingZeroAt(s, p) ==
    /\ p < Len(s) /\ s[p] = Chr.d0 /\ s[p + 1] \in Digits
    /\ ~InsideString(s, p, 1, FALSE)
    /\ LET q == IF p > 1 /\ s[p - 1] = Chr.minus THEN p - 1 ELSE p IN
       q = 1 \/ s[q - 1] \in UnicodeWhitespace \cup {Chr.lbracket, Chr.comma, Chr.colon}

Rejected == ~RootEnded /\ (IsRootFinish(last.call) => last.ret.tag = "Err")

LeadingZeroRejected ==
    (\E p \in 1..Len(json) :
        LeadingZeroAt(json, p) /\ (IsDocument \/ Nesting(json, p) > 0))
        => Rejected

LeadingZeroRejectedEverywhere ==
    (\E p \in 1..Len(json) : LeadingZeroAt(json, p)) => Rejected

LeadingZeroWitness ==
    /\ \E p \in 1..Len(json) : LeadingZeroAt(json, p) /\ Nesting(json, p) > 0
    /\ last.call = "Array::next"
    /\ last.ret.tag = "Err"
    /\ last.ret.e[2] = "ExpectedCommaOrEnd"
    /\ last.ret.e[3] \in Digits

(***************************************************************************)
(* C10.  String::get returns the input between the start of the cursor and *)
(* the first quotation mark that is not part of an escape sequence, the    *)
(* escape sequences left as written, and sets the parent's remaining slice *)
(* to the text just after that quotation mark.                             *)
(***************************************************************************)
\* The offset of the first quotation mark of s, from offset i on, that no
\* backslash escapes; -1 when there is none.
RECURSIVE ClosingQuote(_, _)
ClosingQuote(s, i) ==
    IF i >= Len(s) THEN -1
    ELSE IF s[i + 1] = Chr.backslash THEN ClosingQuote(s, i + 2)
    ELSE IF s[i + 1] = Chr.quote THEN i
    ELSE ClosingQuote(s, i + 1)

StringUpToQuote ==
    (last.call = "String::get" /\ last.ret.tag = "Ok")
        => LET rem == Called.remaining
               q == ClosingQuote(rem, 0)
           IN  /\ q # -1
               /\ last.ret.v = SubSeq(rem, 1, q)
               /\ stack[last.depth - 1].remaining = SubSeq(rem, q + 2, Len(rem))

StringUpToQuoteWitness ==
    /\ last.call = "String::get" /\ last.ret.tag = "Ok"
    /\ \E i \in 1..Len(last.ret.v) : last.ret.v[i] = Chr.quote
    /\ stack[last.depth - 1].remaining # <<>>

(***************************************************************************)
(* C11.  When Number::get returns a number, the number is a prefix of the  *)
(* cursor's remaining slice and the parent's remaining slice is set to     *)
(* the rest of it: the character that ended the number is not consumed     *)
(* and is the first the parent sees, and the parent's slice is empty when  *)
(* the number runs to the end of the input.                                *)
(***************************************************************************)
\* The parent of the cursor the last call was made on, after the call.
ParentAfter == stack[last.depth - 1]

NumberSplitsRemaining ==
    (last.call = "Number::get" /\ last.ret.tag = "Ok")
        => LET rem == Called.remaining
               end == Len(last.ret.v)
           IN  /\ end > 0 /\ end <= Len(rem)
               /\ last.ret.v = SubSeq(rem, 1, end)
               /\ ParentAfter.remaining = SubSeq(rem, end + 1, Len(rem))
               /\ stack[last.depth].remaining = rem
               /\ end < Len(rem) => Head(ParentAfter.remaining) = rem[end + 1]
               /\ end = Len(rem) => ParentAfter.remaining = <<>>

NumberSplitsRemainingWitness ==
    /\ last.call = "Number::get" /\ last.ret.tag = "Ok"
    /\ last.depth > 2
    /\ ParentAfter.remaining # <<>>
    /\ Head(ParentAfter.remaining) \in {Chr.comma, Chr.rbracket, Chr.rbrace}
    /\ Len(last.ret.v) > 1

(***************************************************************************)
(* C12.  Every slice Number::get returns is a complete JSON number: an     *)
(* optional minus, an integer part that is `0` or starts with a digit      *)
(* from 1 to 9, an optional point with one digit or more, an optional      *)
(* exponent mark with an optional sign and one digit or more, and nothing  *)
(* else.  And on every text that is such a number followed by the end of   *)
(* the input or by a character other than a digit, `.`, `e`, `E`, `+` or   *)
(* `-`, Number::get returns exactly that number.                           *)
(***************************************************************************)
NumberChars == Digits \cup {43, 45, 46, 69, 101}

NumberIsComplete ==
    (last.call = "Number::get")
        => LET rem == Called.remaining
               n == RefNumber(rem, 0)
           IN  /\ last.ret.tag = "Ok"
                      => RefNumber(last.ret.v, 0) = Len(last.ret.v)
               /\ (n # -1 /\ (n = Len(rem) \/ rem[n + 1] \notin NumberChars))
                      => last.ret = Ok(SubSeq(rem, 1, n))

NumberIsCompleteWitness ==
    /\ last.call = "Number::get" /\ last.ret.tag = "Ok"
    /\ \E i \in 1..Len(last.ret.v) : last.ret.v[i] = Chr.dot
    /\ \E i \in 1..Len(last.ret.v) : last.ret.v[i] \in {Chr.e, Chr.E}
    /\ last.ret.v[1] = Chr.minus

(***************************************************************************)
(* C13.  For every number text N that Number::get accepts, as_str() is N;  *)
(* as_uK and as_iK return Some of the integer when N is written as an      *)
(* integer the target type can hold, and None otherwise, and never fail.   *)
(* As written (whenever N denotes an integer in the range of the type) the *)
(* statement fails: `-0` denotes zero and as_u8 returns None, the          *)
(* conversion being the platform's parser, which takes no minus sign for   *)
(* an unsigned type.  It holds when, for an unsigned type, N has no minus  *)
(* sign.                                                                   *)
(***************************************************************************)
\* N is written as an integer: no fraction and no exponent.
IsIntegerText(n) == RefInt(n, 0) = Len(n)

\* The value of the decimal digits of s from offset i on.
RECURSIVE DecimalValue(_, _, _)
DecimalValue(s, i, acc) ==
    IF i >= Len(s) THEN acc ELSE DecimalValue(s, i + 1, acc * 10 + (s[i + 1] - 48))

IntegerValue(n) ==
    IF n[1] = Chr.minus THEN 0 - DecimalValue(n, 1, 0) ELSE DecimalValue(n, 0, 0)

\* The integers a type holds, by the name of its conversion.
RangeOf(name) ==
    IF name = "ParsedNumber::as_u8" THEN 0..255
    ELSE IF name = "ParsedNumber::as_u16" THEN 0..65535
    ELSE IF name = "ParsedNumber::as_i8" THEN (0 - 128)..127
    ELSE (0 - 32768)..32767

IsUnsigned(name) == name \in {"ParsedNumber::as_u8", "ParsedNumber::as_u16"}

AsStrIsTheText ==
    last.call = "ParsedNumber::as_str"
        => /\ last.ret = Value(last.view)
           /\ RefNumber(last.view, 0) = Len(last.view)

ConvertsWrittenIntegers ==
    /\ AsStrIsTheText
    /\ last.call \in { t.name : t \in IntTypes }
           => IF /\ IsIntegerText(last.view)
                 /\ IntegerValue(last.view) \in RangeOf(last.call)
                 /\ IsUnsigned(last.call) => last.view[1] # Chr.minus
              THEN last.ret = Some(IntegerValue(last.view))
              ELSE last.ret = None

ConvertsIntegersInRange ==
    /\ AsStrIsTheText
    /\ last.call \in { t.name : t \in IntTypes }
           => IF /\ IsIntegerText(last.view)
                 /\ IntegerValue(last.view) \in RangeOf(last.call)
              THEN last.ret = Some(IntegerValue(last.view))
              ELSE last.ret = None

ConvertsWrittenIntegersWitness ==
    /\ last.call = "ParsedNumber::as_i8"
    /\ last.view = <<Chr.minus, Chr.d1, Chr.d2, Chr.d8>>
    /\ last.ret = Some(0 - 128)
    /\ last.depth > 2

(***************************************************************************)
(* C14.  For every escape of a high surrogate (0xD800 to 0xDBFF) followed  *)
(* by an escape of a low surrogate (0xDC00 to 0xDFFF), the escape machine  *)
(* emits the one scalar 0x10000 + ((high - 0xD800) << 10) + (low -         *)
(* 0xDC00); it lies in 0x10000 to 0x10FFFF, so that neither subtraction    *)
(* underflows and the conversion to a character does not fail: no call     *)
(* panics.                                                                 *)
(***************************************************************************)
\* The characters a string body stands for, by RFC 8259 section 7.
RECURSIVE RefDecode(_, _)
RefDecode(s, i) ==
    IF i >= Len(s) THEN <<>>
    ELSE IF s[i + 1] # 92 THEN <<s[i + 1]>> \o RefDecode(s, i + 1)
    ELSE IF s[i + 2] = 98 THEN <<8>> \o RefDecode(s, i + 2)
    ELSE IF s[i + 2] = 102 THEN <<12>> \o RefDecode(s, i + 2)
    ELSE IF s[i + 2] = 110 THEN <<10>> \o RefDecode(s, i + 2)
    ELSE IF s[i + 2] = 114 THEN <<13>> \o RefDecode(s, i + 2)
    ELSE IF s[i + 2] = 116 THEN <<9>> \o RefDecode(s, i + 2)
    ELSE IF s[i + 2] # 117 THEN <<s[i + 2]>> \o RefDecode(s, i + 2)
    ELSE IF RefHex4(s, i + 2) \notin 55296..56319
    THEN <<RefHex4(s, i + 2)>> \o RefDecode(s, i + 6)
    ELSE <<65536 + (RefHex4(s, i + 2) - 55296) * 1024 + (RefHex4(s, i + 8) - 56320)>>
         \o RefDecode(s, i + 12)

FirstBadDigit(s, j) ==
    IF \A k \in 1..4 : j + k <= Len(s) /\ RefHex(s[j + k]) # -1 THEN 0
    ELSE CHOOSE k \in 1..4 :
             /\ j + k > Len(s) \/ RefHex(s[j + k]) = -1
             /\ \A m \in 1..(k - 1) : j + m <= Len(s) /\ RefHex(s[j + m]) # -1

RECURSIVE SurrogateFault(_, _)
\* After the escape of the high surrogate h, which ends at offset j.
FaultAfterHigh(s, j, h) ==
    IF j >= Len(s) THEN <<"end">>
    ELSE IF s[j + 1] # 92 THEN <<"deviation", h, 1, s[j + 1]>>
    ELSE IF j + 1 >= Len(s) THEN <<"end">>
    ELSE IF s[j + 2] # 117 THEN <<"deviation", h, 2, s[j + 2]>>
    ELSE IF FirstBadDigit(s, j + 2) # 0
    THEN (IF j + 2 + FirstBadDigit(s, j + 2) > Len(s) THEN <<"end">>
          ELSE <<"deviation", h, 2 + FirstBadDigit(s, j + 2),
                 s[j + 2 + FirstBadDigit(s, j + 2)]>>)
    ELSE IF RefHex4(s, j + 2) \notin 56320..57343
    THEN <<"low out of range", h, RefHex4(s, j + 2)>>
    ELSE SurrogateFault(s, j + 6)

SurrogateFault(s, i) ==
    IF i >= Len(s) THEN <<"end">>
    ELSE IF s[i + 1] = 34 THEN <<"none">>
    ELSE IF s[i + 1] # 92 THEN SurrogateFault(s, i + 1)
    ELSE IF i + 1 >= Len(s) THEN <<"end">>
    ELSE IF s[i + 2] \in {34, 92, 47, 98, 102, 110, 114, 116} THEN SurrogateFault(s, i + 2)
    ELSE IF s[i + 2] # 117 THEN <<"other">>
    ELSE IF FirstBadDigit(s, i + 2) # 0 THEN <<"other">>
    ELSE IF RefHex4(s, i + 2) \in 56320..57343 THEN <<"lone low", RefHex4(s, i + 2)>>
    ELSE IF RefHex4(s, i + 2) \in 55296..56319
    THEN FaultAfterHigh(s, i + 6, RefHex4(s, i + 2))
    ELSE SurrogateFault(s, i + 6)

\* The first fault of the string the last String::get was called on.
Fault == SurrogateFault(Called.remaining, 0)

(***************************************************************************)
(* C15.  String::get rejects an escape \uXXXX of a low surrogate n that no *)
(* high surrogate precedes with MissingHighSurrogate{low: n}, and a high   *)
(* surrogate followed by an escape \uXXXX whose value is outside 0xDC00 to *)
(* 0xDFFF with InvalidLowSurrogate{high, low}; and it returns these errors *)
(* in no other case.                                                       *)
(***************************************************************************)
SurrogateErrors ==
    last.call = "String::get"
        => IF Fault[1] = "lone low"
           THEN last.ret = Err(<<"ParseStringError", "MissingHighSurrogate", Fault[2]>>)
           ELSE IF Fault[1] = "low out of range"
           THEN last.ret = Err(<<"ParseStringError", "InvalidLowSurrogate",
                                 Fault[2], Fault[3]>>)
           ELSE \/ last.ret.tag # "Err"
                \/ last.ret.e[2] \notin {"MissingHighSurrogate", "InvalidLowSurrogate"}

SurrogateErrorsWitness ==
    /\ last.call = "String::get"
    /\ last.ret.tag = "Err"
    /\ last.ret.e[2] = "InvalidLowSurrogate"
    /\ last.ret.e[3] \in 55296..56319
    /\ last.ret.e[4] < 55296
    /\ last.depth > 2

(***************************************************************************)
(* C16.  After the escape of a high surrogate, String::get expects a       *)
(* backslash, then u, then four hex digits.  Another character in the      *)
(* place of the backslash or of the u is rejected with                     *)
(* MissingLowSurrogate{high}; a character c that is no hex digit in one of *)
(* the four digit places is rejected with InvalidUnicodeEscape(c).         *)
(***************************************************************************)
LowSurrogateExpected ==
    (last.call = "String::get" /\ Fault[1] = "deviation")
        => IF Fault[3] <= 2
           THEN last.ret = Err(<<"ParseStringError", "MissingLowSurrogate", Fault[2]>>)
           ELSE last.ret = Err(<<"ParseStringError", "InvalidUnicodeEscape", Fault[4]>>)

\* The escape of a high surrogate followed by \ude and a letter that is no
\* hex digit, inside a container.
LowSurrogateExpectedWitness ==
    /\ last.call = "String::get"
    /\ Fault[1] = "deviation"
    /\ Fault[3] = 5
    /\ last.ret = Err(<<"ParseStringError", "InvalidUnicodeEscape", Chr.x>>)
    /\ last.depth > 2

\* C16 as stated: every deviation, at any of the six places, is rejected
\* with MissingLowSurrogate{high}.
EveryDeviationMissingLow ==
    (last.call = "String::get" /\ Fault[1] = "deviation")
        => last.ret = Err(<<"ParseStringError", "MissingLowSurrogate", Fault[2]>>)

(***************************************************************************)
(* C17.  When a next, get or finish call on a cursor has returned an error *)
(* and the same call is made again on the same cursor, it returns the same *)
(* error, and it changes no frame: the remaining slice and the machine of  *)
(* the cursor and of each of its ancestors are as before the repeated      *)
(* call.                                                                   *)
(***************************************************************************)
RepeatedErrorRecurs ==
    last.again.tag = "Some"
        => /\ last.ret = last.again.v
           /\ stack = last.before

\* An Array::finish repeated after it failed inside the array, past an
\* element it had consumed: the first call moved the array, the second
\* moved nothing.
RepeatedErrorRecursWitness ==
    /\ last.again.tag = "Some"
    /\ last.call = "Array::finish"
    /\ last.ret.tag = "Err"
    /\ last.depth > 2
    /\ Len(stack[last.depth].remaining) + 1 < Len(stack[last.depth - 1].remaining)

\* The error e of a value (String, Number, Literal) names a character.
ValueErrorChar(e) ==
    \/ e[1] = "ParseStringError" /\ e[2] \in {"InvalidEscape", "InvalidUnicodeEscape"}
    \/ e[1] = "ParseNumberError"
         /\ e[2] \in {"ExpectedMinusOrDigit", "ExpectedDigit", "ExpectedSignOrDigit"}
    \/ e[1] = "ParseLiteralError" /\ e[2] = "UnexpectedCharacter"

\* The error e of a container or of a root names a character of its own
\* grammar (InvalidName carries the error of the name instead).
StructuralErrorChar(e) ==
    \/ e[1] = "ParseArrayError" /\ e[2] \in {"InvalidElement", "ExpectedCommaOrEnd"}
    \/ e[1] = "ParseObjectError" /\ e[2] \in {"ExpectedName", "ExpectedColon", "InvalidElement"}
    \/ e[1] = "ParseDocumentError" /\ e[2] \in {"UnexpectedCharacter", "InvalidElement"}
    \/ e[1] = "ParseMultiDocumentError" /\ e[2] = "InvalidElement"

\* The last call was a get or a next that returned an error.
GetOrNextFailed ==
    /\ last.call \in {"String::get", "Number::get", "Literal::get", "Array::next",
                      "Object::next", "Document::next", "MultiDocument::next"}
    /\ last.ret.tag = "Err"

\* The cursor the last call was made on, as it is after the call.
CalledAfter == stack[last.depth]

ContainerNextFailed ==
    /\ last.call \in {"Array::next", "Object::next"}
    /\ last.ret.tag = "Err"

(***************************************************************************)
(* C19.  When Array::next or Object::next returns an error, the parent of  *)
(* the container is as it was when the container cursor was created: the   *)
(* same remaining slice and the same state, whatever the container has     *)
(* consumed before.                                                        *)
(***************************************************************************)
ParentUntouchedOnError ==
    ContainerNextFailed
        => /\ ParentAfter = origin[last.depth]
           /\ ParentAfter.remaining = origin[last.depth].remaining

\* An array fails after an element of it has been consumed through its
\* cursor: the array has moved on, its parent has not.
ParentUntouchedOnErrorWitness ==
    /\ ContainerNextFailed
    /\ last.call = "Array::next"
    /\ last.ret.e[2] = "ExpectedCommaOrEnd"
    /\ Len(CalledAfter.remaining) < Len(origin[last.depth].remaining)
    /\ ParentAfter.remaining = origin[last.depth].remaining

\* The last call was Array::next or Object::next and returned None.
ContainerEnded ==
    /\ last.call \in {"Array::next", "Object::next"}
    /\ last.ret = Ok(None)

\* The frame is a container cursor.
IsContainer(frame) == frame.type \in {"Array", "Object"}

(***************************************************************************)
(* C20.  Array::next and Object::next return None exactly when the         *)
(* container's closing bracket has been reached: in the call that meets it *)
(* between elements and not after a comma, and in every call after that.   *)
(* When None is returned the container's remaining slice is the text that  *)
(* follows that bracket and the parent's remaining slice equals it.  As    *)
(* long as a container cursor has not reached its closing bracket, its     *)
(* parent is as it was when the cursor was created.                        *)
(***************************************************************************)
NoneAtClosingBracket ==
    /\ last.call \in {"Array::next", "Object::next"}
           => (last.ret = Ok(None)
                   <=> \/ Called.machine.tag = "End"
                       \/ AtClosing /\ ~AfterComma)
    /\ ContainerEnded
           => /\ Consumed(CalledAfter) > 0
              /\ json[Consumed(CalledAfter)] = Closing(CalledAfter.type)
              /\ Called.machine.tag # "End" => Consumed(CalledAfter) = ClosingAt
              /\ ParentAfter.remaining = CalledAfter.remaining
    /\ \A i \in 2..Len(stack) :
           IsContainer(stack[i])
               => IF stack[i].machine.tag = "End"
                  THEN stack[i - 1] = SetRemaining(origin[i], stack[i].remaining)
                  ELSE stack[i - 1] = origin[i]

\* An array inside another container meets its closing bracket after an
\* element: the parent, untouched until then, is now past the bracket.
NoneAtClosingBracketWitness ==
    /\ ContainerEnded
    /\ last.call = "Array::next"
    /\ last.depth > 2
    /\ Called.machine.tag = "Element"
    /\ last.before[last.depth - 1] = origin[last.depth]
    /\ ParentAfter.remaining = CalledAfter.remaining
    /\ ParentAfter.remaining # <<>>

\* The last call was Array::next or Object::next and returned an error
\* with an or_end flag.
OrEndReported ==
    /\ ContainerNextFailed
    /\ \/ last.ret.e[1] = "ParseArrayError" /\ last.ret.e[2] = "InvalidElement"
       \/ last.ret.e[1] = "ParseObjectError" /\ last.ret.e[2] = "ExpectedName"

\* Between the container's opening bracket and the offending character the
\* input holds whitespace only: no element has been read.
NothingReadYet ==
    \A p \in (Consumed(origin[last.depth]) + 1)..Consumed(CalledAfter) :
        json[p] \in UnicodeWhitespace

\* The last character before the offending one that is no whitespace is a
\* comma.
OffendingAfterComma ==
    LET p == PrevNonWhitespace(json, Consumed(CalledAfter))
    IN  p > 0 /\ json[p] = Chr.comma

(***************************************************************************)
(* C21.  The or_end flag of the array's InvalidElement{c, or_end} and of   *)
(* the object's ExpectedName{c, or_end} is true exactly when no element of *)
(* the container has been read yet, where the container could close, and   *)
(* false exactly when the offending character follows a comma.             *)
(***************************************************************************)
OrEndBeforeFirstElement ==
    OrEndReported
        => /\ last.ret.e[4] = TRUE <=> NothingReadYet
           /\ last.ret.e[4] = FALSE <=> OffendingAfterComma
           /\ Head(CalledAfter.remaining) = last.ret.e[3]

\* An object fails after a member and a comma.
OrEndBeforeFirstElementWitness ==
    /\ OrEndReported
    /\ last.call = "Object::next"
    /\ last.ret.e[4] = FALSE
    /\ OffendingAfterComma
    /\ ~NothingReadYet

(***************************************************************************)
(* The elements of a well-formed container, read off the text: for each,   *)
(* the raw name (objects), the offset where its value starts and the       *)
(* offset where its value ends.  i is the offset after the opening bracket *)
(* or after a comma.                                                       *)
(***************************************************************************)
RECURSIVE RefItems(_, _, _)
RefItemsAfter(s, item, object) ==
    LET j == RefSkip(s, item.end, UnicodeWhitespace)
    IN  IF j < Len(s) /\ s[j + 1] = 44 THEN <<item>> \o RefItems(s, j + 1, object)
        ELSE <<item>>

RefItems(s, i, object) ==
    LET j == RefSkip(s, i, UnicodeWhitespace)
    IN  IF j >= Len(s) \/ s[j + 1] \in {93, 125} THEN <<>>
        ELSE IF object
        THEN LET n == RefChars(s, j + 1, TRUE)
                 v == RefSkip(s, RefSkip(s, n, UnicodeWhitespace) + 1, UnicodeWhitespace)
             IN  RefItemsAfter(s, [name |-> SubSeq(s, j + 2, n - 1), at |-> v,
                                   end |-> RefValue(s, v, Lenient)], object)
        ELSE RefItemsAfter(s, [name |-> <<>>, at |-> j,
                               end |-> RefValue(s, j, Lenient)], object)

\* The last call was next on a container that is well-formed in the input
\* and has no child pending.
ContainerPulled ==
    /\ last.call \in {"Array::next", "Object::next"}
    /\ RefValue(json, Consumed(origin[last.depth]) - 1, Lenient) # -1
    /\ ~Pending(Called)

\* The elements of that container.
Items == RefItems(json, Consumed(origin[last.depth]), Called.type = "Object")

\* Where the container stands after k of its elements.
AfterItem(k) == IF k = 0 THEN Consumed(origin[last.depth]) ELSE Items[k].end

\* The child cursor for the value that starts at offset at.
ChildFor(at) ==
    Create(ValueKind(json[at + 1]),
           SliceFrom(json, IF StartsOnFirst(ValueKind(json[at + 1])) THEN at ELSE at + 1))

(***************************************************************************)
(* C22.  In a well-formed Array or Object whose children are each          *)
(* completed before the next call, next after k completed children yields  *)
(* the (k+1)-th element in source order, and None after the last: the      *)
(* child is a cursor of the kind its first character announces, placed on  *)
(* that value, and for an Object it comes with the raw name of that same   *)
(* member.                                                                 *)
(***************************************************************************)
ChildrenInSourceOrder ==
    ContainerPulled
        => IF Called.machine.tag = "End" THEN last.ret = Ok(None)
           ELSE \E k \in 0..Len(Items) :
                   /\ Consumed(Called) = AfterItem(k)
                   /\ IF k = Len(Items) THEN last.ret = Ok(None)
                      ELSE /\ YieldsValue(last.call, last.ret)
                           /\ last.ret.v.v.child = ChildFor(Items[k + 1].at)
                           /\ Called.type = "Object"
                                  => last.ret.v.v.name = Items[k + 1].name

\* The second member of an object, under another name than the first.
ChildrenInSourceOrderWitness ==
    /\ ContainerPulled
    /\ last.call = "Object::next"
    /\ Len(Items) = 2
    /\ Consumed(Called) = AfterItem(1)
    /\ Items[1].name # Items[2].name
    /\ YieldsValue(last.call, last.ret)
    /\ last.ret.v.v.name = Items[2].name

(***************************************************************************)
(* What Literal::get has to return on the text rem, read off the text:     *)
(* the result and, for a literal, the offset just after its last letter.   *)
(***************************************************************************)
LiteralWord(c) ==
    IF c = 116 THEN <<116, 114, 117, 101>>
    ELSE IF c = 102 THEN <<102, 97, 108, 115, 101>>
    ELSE <<110, 117, 108, 108>>
LiteralName(c) == IF c = 116 THEN "True" ELSE IF c = 102 THEN "False" ELSE "Null"

\* The first place k of the word w, laid on rem from offset j, where rem has
\* ended or holds another letter; 0 when rem holds the whole word.
FirstDeviation(rem, j, w) ==
    IF \A k \in 1..Len(w) : j + k <= Len(rem) /\ rem[j + k] = w[k] THEN 0
    ELSE CHOOSE k \in 1..Len(w) :
             /\ j + k > Len(rem) \/ rem[j + k] # w[k]
             /\ \A m \in 1..(k - 1) : j + m <= Len(rem) /\ rem[j + m] = w[m]

RefLiteralGetFrom(rem, j) ==
    IF j >= Len(rem)
    THEN [ret |-> Err(<<"ParseLiteralError", "UnexpectedEnd">>), end |-> -1]
    ELSE IF rem[j + 1] \notin {116, 102, 110}
    THEN [ret |-> Err(<<"ParseLiteralError", "UnexpectedCharacter", rem[j + 1]>>),
          end |-> -1]
    ELSE LET w == LiteralWord(rem[j + 1])
             k == FirstDeviation(rem, j, w)
         IN  IF k = 0 THEN [ret |-> Ok(LiteralName(rem[j + 1])), end |-> j + Len(w)]
             ELSE IF j + k > Len(rem)
             THEN [ret |-> Err(<<"ParseLiteralError", "UnexpectedEnd">>), end |-> -1]
             ELSE [ret |-> Err(<<"ParseLiteralError", "UnexpectedCharacter", rem[j + k]>>),
                   end |-> -1]

RefLiteralGet(rem) == RefLiteralGetFrom(rem, RefSkip(rem, 0, UnicodeWhitespace))

\* The call r of Literal::get on a cursor over rem under the parent p did
\* what the text asks for.
LiteralGetAsRead(p, rem, r) ==
    /\ r.ret = RefLiteralGet(rem).ret
    /\ r.self.remaining = rem
    /\ IF r.ret.tag = "Ok"
       THEN r.parent = SetRemaining(p, SliceFrom(rem, RefLiteralGet(rem).end))
       ELSE r.parent = p

\* Whitespace a literal cursor may stand before.
LeadingBlanks == { <<>>, <<32>>, <<9, 160>>, <<10, 13, 8232>> }

(***************************************************************************)
(* C23.  Literal::get returns True, False or Null exactly when the         *)
(* remaining text, after optional whitespace, begins with true, false or   *)
(* null, and then sets the parent's remaining slice to the text just after *)
(* the last letter and marks the value done; the first deviating character *)
(* c gives UnexpectedCharacter(c), a text that ends before the last letter *)
(* gives UnexpectedEnd, and in both cases the parent is not modified.      *)
(* Checked for each Literal::get call made, and for the same cursor placed *)
(* before whitespace.                                                      *)
(***************************************************************************)
LiteralRecognised ==
    last.call = "Literal::get"
        => /\ LiteralGetAsRead(last.before[last.depth - 1], Called.remaining,
                               [parent |-> ParentAfter, self |-> CalledAfter,
                                ret |-> last.ret])
           /\ \A ws \in LeadingBlanks :
                  LiteralGetAsRead(last.before[last.depth - 1], ws \o Called.remaining,
                                   LiteralGet(last.before[last.depth - 1],
                                              [Called EXCEPT !.remaining = ws \o @]))

\* The literal false as a member of an object, followed by more text.
LiteralRecognisedWitness ==
    /\ last.call = "Literal::get"
    /\ last.ret = Ok("False")
    /\ last.before[last.depth - 1].type = "Object"
    /\ ParentAfter.remaining = SliceFrom(Called.remaining, 5)
    /\ ParentAfter.remaining # <<>>
    /\ ParentAfter.machine.element = Done

\* The last call was finish on the cursor of a value.
ValueFinished ==
    last.call \in {"String::finish", "Number::finish", "Literal::finish",
                   "Array::finish", "Object::finish"}

\* The offset in the input where the value of the called cursor starts.
ValueStart ==
    IF StartsOnFirst(Called.type) THEN Consumed(origin[last.depth])
    ELSE Consumed(origin[last.depth]) - 1

\* The offset where that value ends, -1 when it is not well-formed.
ValueEnd == RefValue(json, ValueStart, Lenient)

\* The value is well-formed, and what follows it can follow a value.
WellFormedValue ==
    /\ ValueEnd # -1
    /\ \/ ValueEnd = Len(json)
       \/ json[ValueEnd + 1] \in UnicodeWhitespace \cup {44, 93, 125}

(***************************************************************************)
(* C24.  finish on the cursor of a well-formed value, called right after   *)
(* the cursor was yielded or after children of it were pulled and          *)
(* completed or pulled and left unfinished, returns Ok and leaves the      *)
(* parent where a full traversal leaves it: as it was when the cursor was  *)
(* created but for its remaining slice, now the text just after the value, *)
(* and its status, now Done.                                               *)
(***************************************************************************)
FinishSkipsTheValue ==
    (ValueFinished /\ WellFormedValue)
        => /\ last.ret = Ok(<<>>)
           /\ ParentAfter = SetRemaining(origin[last.depth], SliceFrom(json, ValueEnd))
           /\ ~Pending(ParentAfter)

\* An array is finished after one element of it was completed and the next
\* was pulled and left unfinished.
FinishSkipsTheValueWitness ==
    /\ last.call = "Array::finish"
    /\ WellFormedValue
    /\ Pending(Called)
    /\ Len(Items) = 2
    /\ Consumed(Called) >= Items[2].at
    /\ last.ret = Ok(<<>>)
    /\ Consumed(ParentAfter) = ValueEnd

(***************************************************************************)
(* C25.  Once a cursor has completed (get succeeded on a String, a Number  *)
(* or a Literal, next returned None on an Array, an Object, a Document or  *)
(* a MultiDocument, or finish succeeded), a get, next or finish on it      *)
(* succeeds again, with the same result when it is the same call, and      *)
(* leaves the cursor and every ancestor as they were.                      *)
(***************************************************************************)
CompletionIdempotent ==
    last.done.tag = "Some"
        => /\ Completes(last.call, last.ret)
           /\ last.call = last.done.v.call => last.ret = last.done.v.ret
           /\ stack = last.before

\* A finish on a string inside a container after get has returned the
\* string.
CompletionIdempotentWitness ==
    /\ last.done.tag = "Some"
    /\ last.done.v.call = "String::get"
    /\ last.call = "String::finish"
    /\ last.ret = Ok(<<>>)
    /\ last.depth > 2
    /\ ParentAfter.remaining # <<>>

(***************************************************************************)
(* The last call was a helper, on a cursor whose text is well-formed: a    *)
(* container that is a well-formed value, a Document over one value, a     *)
(* MultiDocument over values only.                                         *)
(***************************************************************************)
HelperCalled == last.log.tag = "Some"
HelperIsFind == IsFind(last.call)
HelperIsFold ==
    last.call \in {"Document::fold", "MultiDocument::fold", "Array::fold", "Object::fold"}

\* The values of the input of a root, as elements without a name: the one
\* value of a Document, all the values of a MultiDocument.
RootItems ==
    LET starts == RefSplit(json, 0, Lenient)
        n == IF IsDocument /\ Len(starts) > 1 THEN 1 ELSE Len(starts)
    IN  [k \in 1..n |-> [name |-> <<>>, at |-> starts[k],
                         end |-> RefValue(json, starts[k], Lenient)]]

\* The elements of the cursor the helper was called on.
TraversedItems == IF last.depth = 1 THEN RootItems ELSE Items

TraversedWellFormed ==
    /\ HelperCalled
    /\ IF last.depth > 1
       THEN RefValue(json, Consumed(origin[last.depth]) - 1, Lenient) # -1
       ELSE IF IsDocument THEN RefJson(json, Lenient)
       ELSE \A k \in 1..Len(RefSplit(json, 0, Lenient)) :
                RefSplit(json, 0, Lenient)[k] # -1

\* How many elements the cursor had completed when the helper was called,
\* and the element the helper stops after.
CompletedElements ==
    Cardinality({ k \in 1..Len(TraversedItems) : TraversedItems[k].end <= Consumed(Called) })
HitElement == CompletedElements + last.log.v.f.hit
StopsOnHit == HelperIsFind /\ HitElement <= Len(TraversedItems)
LastTraversed == IF StopsOnHit THEN HitElement ELSE Len(TraversedItems)

\* The elements f has to be called on, in order.
ElementsForCallback ==
    [i \in 1..(LastTraversed - CompletedElements) |->
        [name |-> TraversedItems[CompletedElements + i].name,
         child |-> ChildFor(TraversedItems[CompletedElements + i].at)]]

\* What a next on the cursor returns after the helper.
NextAfterTraversal ==
    NextOf(IF last.depth = 1 THEN None ELSE ParentAfter, CalledAfter).ret

(***************************************************************************)
(* C26.  for_each, fold and find, called on a well-formed Array, Object,   *)
(* Document or MultiDocument with a callback that leaves its element       *)
(* alone, finishes it or pulls from it once, call the callback on each     *)
(* element that was not completed before, once and in source order; fold   *)
(* returns what its callback accumulated, for_each nothing, find the       *)
(* element at which the callback returned Some, or None.  After a find     *)
(* that stopped at an element the cursor stands just after that element,   *)
(* with no child pending, and a next on it yields the element that follows *)
(* or None after the last; after any other traversal a next returns None,  *)
(* and a container has ended and has handed the text after its closing     *)
(* bracket to its parent.                                                  *)
(***************************************************************************)
TraversalInSourceOrder ==
    TraversedWellFormed
        => /\ last.log.v.seen = ElementsForCallback
           /\ last.ret = IF StopsOnHit
                         THEN Ok(Some(ElementsForCallback[Len(ElementsForCallback)]))
                         ELSE IF HelperIsFind THEN Ok(None)
                         ELSE IF HelperIsFold THEN Ok(Accumulated(ElementsForCallback))
                         ELSE Ok(<<>>)
           /\ ~Pending(CalledAfter)
           /\ IF StopsOnHit
              THEN /\ Consumed(CalledAfter) = TraversedItems[LastTraversed].end
                   /\ IF LastTraversed = Len(TraversedItems)
                      THEN NextAfterTraversal = Ok(None)
                      ELSE /\ NextAfterTraversal.tag = "Ok"
                           /\ NextAfterTraversal.v.tag = "Some"
                           /\ NextAfterTraversal.v.v.child
                                  = ChildFor(TraversedItems[LastTraversed + 1].at)
              ELSE /\ NextAfterTraversal = Ok(None)
                   /\ last.depth > 1
                          => /\ CalledAfter.machine.tag = "End"
                             /\ ParentAfter = SetRemaining(origin[last.depth],
                                                           SliceFrom(json, ValueEnd))

\* Object::find with a callback that leaves the members alone and returns
\* Some at the first of two: the second member is what next yields then.
TraversalInSourceOrderWitness ==
    /\ TraversedWellFormed
    /\ last.call = "Object::find"
    /\ last.log.v.f = [does |-> "leave", hit |-> 1]
    /\ Len(TraversedItems) = 2
    /\ CompletedElements = 0
    /\ Len(last.log.v.seen) = 1
    /\ last.ret = Ok(Some([name |-> TraversedItems[1].name, child |-> ChildFor(TraversedItems[1].at)]))
    /\ TraversedItems[1].name # TraversedItems[2].name
    /\ NextAfterTraversal.v.v.name = TraversedItems[2].name

(***************************************************************************)
(* The items of a string body, read off the text: an unescaped character,  *)
(* a two-character escape, a \uXXXX escape, or a surrogate pair of two.    *)
(***************************************************************************)
\* The length of the item at offset i.
ItemLength(s, i) ==
    IF s[i + 1] # 92 THEN 1
    ELSE IF s[i + 2] # 117 THEN 2
    ELSE IF RefHex4(s, i + 2) \in 55296..56319 THEN 12
    ELSE 6

\* The offsets where the items of s start, from offset i.
RECURSIVE ItemStarts(_, _)
ItemStarts(s, i) ==
    IF i >= Len(s) THEN <<>> ELSE <<i>> \o ItemStarts(s, i + ItemLength(s, i))

\* The characters the two-character escapes stand for.
EscapedCharacter ==
    [c \in {34, 92, 47, 98, 102, 110, 114, 116} |->
        IF c = 98 THEN 8
        ELSE IF c = 102 THEN 12
        ELSE IF c = 110 THEN 10
        ELSE IF c = 114 THEN 13
        ELSE IF c = 116 THEN 9
        ELSE c]

\* The scalar the item at offset i stands for.
ItemScalar(s, i) ==
    IF ItemLength(s, i) = 1 THEN s[i + 1]
    ELSE IF ItemLength(s, i) = 2 THEN EscapedCharacter[s[i + 2]]
    ELSE IF ItemLength(s, i) = 6 THEN RefHex4(s, i + 2)
    ELSE 65536 + (RefHex4(s, i + 2) - 55296) * 1024 + (RefHex4(s, i + 8) - 56320)

\* What the escape machine emits when string::Machine drives it over s from
\* offset i in the state m, as String::get does to validate, with the
\* characters outside escapes handed through; -1 where the machine fails.
RECURSIVE ValidationEmits(_, _, _)
ValidationEmits(s, i, m) ==
    IF i >= Len(s) THEN <<>>
    ELSE IF m.tag = "In"
    THEN IF s[i + 1] = 92
         THEN ValidationEmits(s, i + 1, [tag |-> "Escape", m |-> [tag |-> "Awaiting"]])
         ELSE <<s[i + 1]>> \o ValidationEmits(s, i + 1, m)
    ELSE LET r == EscapeMachineApply(m.m, s[i + 1])
         IN  IF r.tag # "Ok" THEN <<-1>>
             ELSE IF r.v.tag = "Parsing"
             THEN ValidationEmits(s, i + 1, [tag |-> "Escape", m |-> r.v.m])
             ELSE <<r.v.r>> \o ValidationEmits(s, i + 1, [tag |-> "In"])

RECURSIVE StringCutShort(_, _)
\* After the escape of a high surrogate, which ends at offset j.
StringCutAfterHigh(s, j) ==
    IF j >= Len(s) THEN TRUE
    ELSE IF s[j + 1] # 92 THEN FALSE
    ELSE IF j + 1 >= Len(s) THEN TRUE
    ELSE IF s[j + 2] # 117 THEN FALSE
    ELSE IF FirstBadDigit(s, j + 2) # 0 THEN j + 2 + FirstBadDigit(s, j + 2) > Len(s)
    ELSE IF RefHex4(s, j + 2) \notin 56320..57343 THEN FALSE
    ELSE StringCutShort(s, j + 6)

StringCutShort(s, i) ==
    IF i >= Len(s) THEN TRUE
    ELSE IF s[i + 1] = 34 THEN FALSE
    ELSE IF s[i + 1] # 92 THEN StringCutShort(s, i + 1)
    ELSE IF i + 1 >= Len(s) THEN TRUE
    ELSE IF s[i + 2] \in {34, 92, 47, 98, 102, 110, 114, 116} THEN StringCutShort(s, i + 2)
    ELSE IF s[i + 2] # 117 THEN FALSE
    ELSE IF FirstBadDigit(s, i + 2) # 0 THEN i + 2 + FirstBadDigit(s, i + 2) > Len(s)
    ELSE IF RefHex4(s, i + 2) \in 56320..57343 THEN FALSE
    ELSE IF RefHex4(s, i + 2) \in 55296..56319 THEN StringCutAfterHigh(s, i + 6)
    ELSE StringCutShort(s, i + 6)

LiteralCutShort(s) ==
    LET j == RefSkip(s, 0, UnicodeWhitespace)
    IN  \/ j >= Len(s)
        \/ /\ s[j + 1] \in {116, 102, 110}
           /\ Len(s) - j < Len(LiteralWord(s[j + 1]))
           /\ \A k \in 1..(Len(s) - j) : s[j + k] = LiteralWord(s[j + 1])[k]

\* Only whitespace is left from offset i.
OnlyBlanks(s, i) == RefSkip(s, i, UnicodeWhitespace) >= Len(s)

\* The next character from offset i that is no whitespace is c.
NextIs(s, i, c) ==
    /\ ~OnlyBlanks(s, i)
    /\ s[RefSkip(s, i, UnicodeWhitespace) + 1] = c

\* An array that expects an element or `]`, and one that has completed an
\* element.
ArrayCutIn(s, i) == OnlyBlanks(s, i)
ArrayCutDone(s, i) ==
    \/ OnlyBlanks(s, i)
    \/ NextIs(s, i, 44) /\ ArrayCutIn(s, RefSkip(s, i, UnicodeWhitespace) + 1)

\* An object before the value of a member, after its name, in its name,
\* before a name, and after a member: "end" when the input ends between
\* tokens, "name" when it ends in a name, "no" otherwise.
ObjectCutPreElement(s, i) == IF OnlyBlanks(s, i) THEN "end" ELSE "no"
ObjectCutNamed(s, i) ==
    IF OnlyBlanks(s, i) THEN "end"
    ELSE IF NextIs(s, i, 58)
    THEN ObjectCutPreElement(s, RefSkip(s, i, UnicodeWhitespace) + 1)
    ELSE "no"
ObjectCutName(s, i) ==
    IF StringCutShort(s, i) THEN "name"
    ELSE IF RefChars(s, i, TRUE) = -1 THEN "no"
    ELSE ObjectCutNamed(s, RefChars(s, i, TRUE))
ObjectCutIn(s, i) ==
    IF OnlyBlanks(s, i) THEN "end"
    ELSE IF NextIs(s, i, 34) THEN ObjectCutName(s, RefSkip(s, i, UnicodeWhitespace) + 1)
    ELSE "no"
ObjectCutDone(s, i) ==
    IF OnlyBlanks(s, i) THEN "end"
    ELSE IF NextIs(s, i, 44) THEN ObjectCutIn(s, RefSkip(s, i, UnicodeWhitespace) + 1)
    ELSE "no"

\* The verdict for the cursor the last call was made on, from its state
\* and its text.
CutShort ==
    IF last.call = "String::get"
    THEN (IF StringCutShort(Called.remaining, 0) THEN "end" ELSE "no")
    ELSE IF last.call = "Literal::get"
    THEN (IF LiteralCutShort(Called.remaining) THEN "end" ELSE "no")
    ELSE IF last.call = "Array::next"
    THEN (IF Called.machine.tag = "In" /\ ArrayCutIn(Called.remaining, 0) THEN "end"
          ELSE IF /\ Called.machine.tag = "Element"
                  /\ ~Pending(Called)
                  /\ ArrayCutDone(Called.remaining, 0)
          THEN "end"
          ELSE "no")
    ELSE IF last.call = "Object::next"
    THEN (IF Called.machine.tag = "In" THEN ObjectCutIn(Called.remaining, 0)
          ELSE IF Called.machine.tag = "Name"
          THEN (IF Called.machine.name.tag = "None"
                THEN ObjectCutName(Called.remaining, 0)
                ELSE ObjectCutNamed(Called.remaining, 0))
          ELSE IF Called.machine.tag = "PreElement"
          THEN ObjectCutPreElement(Called.remaining, 0)
          ELSE IF Called.machine.tag = "Element" /\ ~Pending(Called)
          THEN ObjectCutDone(Called.remaining, 0)
          ELSE "no")
    ELSE "no"

\* next was called on a container that has a child pending, the input
\* having ended.
PendingAtEnd ==
    /\ last.call \in {"Array::next", "Object::next"}
    /\ Pending(Called)
    /\ Called.remaining = <<>>

\* The UnexpectedEnd of the production the last call belongs to.
OwnUnexpectedEnd ==
    Err(<<IF last.call = "String::get" THEN "ParseStringError"
          ELSE IF last.call = "Literal::get" THEN "ParseLiteralError"
          ELSE IF last.call = "Array::next" THEN "ParseArrayError"
          ELSE "ParseObjectError",
          "UnexpectedEnd">>)

ParentUntouched == ParentAfter = last.before[last.depth - 1]

(***************************************************************************)
(* C28.  When the input ends inside a String or a Literal, get returns     *)
(* the UnexpectedEnd of that production; when it ends between the tokens   *)
(* of an Array or an Object that has no child pending, next returns the    *)
(* UnexpectedEnd of that production; in each case the parent is not        *)
(* modified.  As written, for every state of the machine but the final     *)
(* one, the statement fails twice: an object whose input ends inside a     *)
(* member name returns InvalidName carrying the UnexpectedEnd of the       *)
(* string, and a container that has a child pending yields that child      *)
(* again though the input has ended; the parent is not modified in these   *)
(* cases either.                                                           *)
(***************************************************************************)
UnexpectedEndWhenCutShort ==
    /\ CutShort = "end" => last.ret = OwnUnexpectedEnd /\ ParentUntouched
    /\ CutShort = "name"
           => /\ last.ret = Err(<<"ParseObjectError", "InvalidName",
                                  <<"ParseStringError", "UnexpectedEnd">>>>)
              /\ ParentUntouched
    /\ PendingAtEnd
           => /\ YieldsValue(last.call, last.ret)
              /\ ParentUntouched
              /\ CalledAfter = Called

\* An object is cut after a colon.
UnexpectedEndWhenCutShortWitness ==
    /\ last.call = "Object::next"
    /\ CutShort = "end"
    /\ Consumed(Called) < Len(json)
    /\ json[Len(json)] = 58
    /\ last.ret = Err(<<"ParseObjectError", "UnexpectedEnd">>)
    /\ ParentUntouched

\* The statement as written: every such end gives the production's own
\* UnexpectedEnd.
AlwaysOwnUnexpectedEnd ==
    (CutShort # "no" \/ PendingAtEnd) => last.ret = OwnUnexpectedEnd /\ ParentUntouched

\* The last call completed a child: get succeeded on a String, a Number or
\* a Literal, or next found an Array or an Object at its End.
ChildCompleted ==
    /\ last.depth > 1
    /\ \/ /\ last.call \in {"String::get", "Number::get", "Literal::get"}
          /\ last.ret.tag = "Ok"
       \/ /\ last.call \in {"Array::next", "Object::next"}
          /\ last.ret = Ok(None)

ParentBefore == last.before[last.depth - 1]

\* What the completed child has left unconsumed: the text after the string
\* it returned and its closing quote, after the number it returned, after
\* the letters of the literal, or the remaining slice of the container.
UnconsumedSuffix ==
    IF last.call = "String::get" THEN SliceFrom(Called.remaining, Len(last.ret.v) + 1)
    ELSE IF last.call = "Number::get" THEN SliceFrom(Called.remaining, Len(last.ret.v))
    ELSE IF last.call = "Literal::get"
    THEN SliceFrom(Called.remaining, IF last.ret.v = "False" THEN 5 ELSE 4)
    ELSE CalledAfter.remaining

\* The parent with its status Done and the remaining slice rem, all else
\* as it is.
CompletedParent(parent, rem) ==
    IF parent.type = "Document"
    THEN [type |-> "Document", remaining |-> rem, parse_status |-> Some(Done)]
    ELSE IF parent.type = "MultiDocument"
    THEN [type |-> "MultiDocument", remaining |-> rem, parse_status |-> Done]
    ELSE IF parent.type = "Array"
    THEN [type |-> "Array", remaining |-> rem,
          machine |-> [tag |-> "Element", element |-> Done]]
    ELSE [type |-> "Object", remaining |-> rem,
          machine |-> [tag |-> "Element", name |-> parent.machine.name,
                       element |-> Done]]

(***************************************************************************)
(* C29.  When a child completes, its parent, which had that child pending  *)
(* (or has it done already, the child having completed before), has in     *)
(* the state after the call the text the child has left unconsumed as its  *)
(* remaining slice and the status Done; an Object parent still holds the   *)
(* name of the member, and neither anything else in the parent nor any     *)
(* cursor below it has changed.                                            *)
(***************************************************************************)
ChildHandsOverRemaining ==
    ChildCompleted
        => /\ Pending(ParentBefore) \/ ParentBefore = ParentAfter
           /\ ParentAfter = CompletedParent(ParentBefore, UnconsumedSuffix)
           /\ \A k \in 1..(last.depth - 2) : stack[k] = last.before[k]

\* A string that is the value of a member completes for the first time,
\* with text left after its closing quote.
ChildHandsOverRemainingWitness ==
    /\ ChildCompleted
    /\ last.call = "String::get"
    /\ ParentBefore.type = "Object"
    /\ Pending(ParentBefore)
    /\ ~Pending(ParentAfter)
    /\ ParentAfter.machine.name = ParentBefore.machine.name
    /\ ParentAfter.machine.name # <<>>
    /\ Len(ParentAfter.remaining) > 1
    /\ ParentAfter.remaining # ParentBefore.remaining

\* The kind of value a cursor with a child pending has prompted.
PromptedKind(cursor) ==
    IF cursor.type = "Document" THEN cursor.parse_status.v.prompt
    ELSE IF cursor.type = "MultiDocument" THEN cursor.parse_status.prompt
    ELSE cursor.machine.element.prompt

\* The cursors that are on the stack before and after the last step.
Kept == 1..(IF Len(stack) < Len(last.before) THEN Len(stack) ELSE Len(last.before))

FreshChild == YieldsValue(last.call, last.ret) /\ ~Pending(Called)

NewChild == last.ret.v.v.child

\* The offset in the input of the first character of the value, counted
\* back from where the child starts.
FirstCharacterOffset ==
    IF NewChild.type \in {"Number", "Literal"} THEN Consumed(NewChild)
    ELSE Consumed(NewChild) - 1

\* The character that opens a value of the kind.
Opens(kind, c) ==
    IF kind = "String" THEN c = Chr.quote
    ELSE IF kind = "Object" THEN c = Chr.lbrace
    ELSE IF kind = "Array" THEN c = Chr.lbracket
    ELSE IF kind = "Literal" THEN c \in {Chr.t, Chr.f, Chr.n}
    ELSE kind = "Number" /\ (c \in Digits \/ c = Chr.minus)

\* The character at index q is the one the value position of the called
\* parent follows: none of those the call read but whitespace, or the comma
\* after a completed element, or the colon after a member name.
ValuePositionAfter(q) ==
    IF Called.type = "Object" /\ Called.machine.tag # "PreElement"
    THEN q > Consumed(Called) /\ json[q] = Chr.colon
    ELSE IF Called.type = "Array" /\ Called.machine.tag = "Element"
    THEN /\ q > Consumed(Called) /\ json[q] = Chr.comma
         /\ PrevNonWhitespace(json, q - 1) <= Consumed(Called)
    ELSE q <= Consumed(Called)

ChildStartsAtItsValue ==
    FreshChild
        => /\ NewChild.remaining = SliceFrom(json, Consumed(NewChild))
           /\ FirstCharacterOffset >= Consumed(Called)
           /\ FirstCharacterOffset < Len(json)
           /\ Opens(NewChild.type, json[FirstCharacterOffset + 1])
           /\ ValuePositionAfter(PrevNonWhitespace(json, FirstCharacterOffset))
           /\ stack[last.depth].remaining = NewChild.remaining
           /\ top = NewChild

\* A string after the colon and whitespace in an object: the child starts
\* after the opening quote.
ChildStartsAtItsValueWitness ==
    /\ FreshChild
    /\ Called.type = "Object"
    /\ NewChild.type = "String"
    /\ json[FirstCharacterOffset] \in UnicodeWhitespace
    /\ NewChild.remaining # <<>>

(***************************************************************************)
(* C32.  At every position where a value is expected (a Document before    *)
(* its value, a MultiDocument, an Array at an element position, an Object  *)
(* after the colon), the first character that is no whitespace alone       *)
(* decides the child: a quote gives a String, a digit or minus a Number,   *)
(* an opening brace an Object, an opening bracket an Array, t, f or n a    *)
(* Literal, and no other character produces a child.                       *)
(***************************************************************************)
\* The offset after the whitespace from offset i of s when the character c
\* follows it and is passed over, -1 otherwise.
RefPast(s, i, c) ==
    IF i = -1 THEN -1
    ELSE LET j == RefSkip(s, i, UnicodeWhitespace)
         IN  IF j < Len(s) /\ s[j + 1] = c THEN j + 1 ELSE -1

\* The offset after a member name and its closing quote, from the offset i
\* after its opening quote.
RefName(s, i) == IF i = -1 THEN -1 ELSE RefChars(s, i, TRUE)

\* The offset in the remaining slice of the called parent of the first
\* character that is no whitespace at the value position the call comes
\* to, read off the text; -1 when the parent expects no value or the text
\* before the value position is not as it has to be.  An Object is called
\* before a member, after a completed member, or after the colon (when a
\* call before has failed there).
ValuePosition ==
    LET rem == Called.remaining
        skip(i) == IF i = -1 THEN -1 ELSE RefSkip(rem, i, UnicodeWhitespace)
        member(i) == skip(RefPast(rem, RefName(rem, RefPast(rem, i, Chr.quote)),
                                  Chr.colon))
    IN  IF Pending(Called) THEN -1
        ELSE IF Called.type = "Document"
        THEN IF Called.parse_status.tag = "None" THEN skip(0) ELSE -1
        ELSE IF Called.type = "MultiDocument" THEN skip(0)
        ELSE IF Called.type = "Array"
        THEN IF Called.machine.tag = "In" THEN skip(0)
             ELSE IF Called.machine.tag = "Element"
             THEN skip(RefPast(rem, 0, Chr.comma))
             ELSE -1
        ELSE IF Called.type = "Object"
        THEN IF Called.machine.tag = "PreElement" THEN skip(0)
             ELSE IF Called.machine.tag = "In" THEN member(0)
             ELSE IF Called.machine.tag = "Element"
             THEN member(RefPast(rem, 0, Chr.comma))
             ELSE -1
        ELSE -1

AtValuePosition ==
    /\ IsNext(last.call)
    /\ ValuePosition # -1
    /\ ValuePosition < Len(Called.remaining)

FirstCharacter == Called.remaining[ValuePosition + 1]

\* classify-start, as the property states it.
ClassifyStart(c) ==
    IF c = Chr.quote THEN "String"
    ELSE IF c \in Digits \/ c = Chr.minus THEN "Number"
    ELSE IF c = Chr.lbrace THEN "Object"
    ELSE IF c = Chr.lbracket THEN "Array"
    ELSE IF c \in {Chr.t, Chr.f, Chr.n} THEN "Literal"
    ELSE "None"

KindByFirstCharacter ==
    AtValuePosition
        => IF ClassifyStart(FirstCharacter) = "None"
           THEN ~YieldsValue(last.call, last.ret)
           ELSE /\ YieldsValue(last.call, last.ret)
                /\ last.ret.v.v.child.type = ClassifyStart(FirstCharacter)

\* A minus sign after a member name and a colon, met in one call of
\* Object::next from the opening brace.
KindByFirstCharacterWitness ==
    /\ AtValuePosition
    /\ last.call = "Object::next"
    /\ Called.machine.tag = "In"
    /\ FirstCharacter = Chr.minus
    /\ YieldsValue(last.call, last.ret)

(***************************************************************************)
(* C33.  When the input ends inside a number, Number::get succeeds exactly *)
(* when the text so far ends in the integer digits, in the fraction digits *)
(* or in the exponent digits (InInteger, PostInteger, Fraction, Exponent); *)
(* at the start and after the decimal point (Start, PreFraction) it        *)
(* returns UnexpectedEnd{or_sign}, and after the e (PreExponent)           *)
(* UnexpectedEndAfterExponent{or_sign}, or_sign being true exactly when a  *)
(* sign would still have been accepted where the input ends.               *)
(***************************************************************************)
NotInNumber == [state |-> "None", or_sign |-> FALSE]
InNumber(state, or_sign) == [state |-> state, or_sign |-> or_sign]

\* Where in a number the text s ends, read off the text from the offset i
\* of an e or E: before the exponent digits or in them.
EndsInExponent(s, i) ==
    IF s[i + 1] \notin {Chr.e, Chr.E} THEN NotInNumber
    ELSE LET g == IF i + 1 < Len(s) /\ s[i + 2] \in {Chr.plus, Chr.minus}
                  THEN i + 2 ELSE i + 1
             h == RefDigits(s, g)
         IN  IF g = Len(s) THEN InNumber("PreExponent", g = i + 1)
             ELSE IF h = Len(s) THEN InNumber("Exponent", FALSE)
             ELSE NotInNumber

\* Where in a number the whole text s ends: the state a number is in when
\* every character of s belongs to it and none is left, with whether a sign
\* could come next; NotInNumber when a character of s ends or breaks the
\* number.
EndsInNumber(s) ==
    LET a == IF s # <<>> /\ s[1] = Chr.minus THEN 1 ELSE 0
        b == RefDigits(s, a)
        c == RefDigits(s, b + 1)
    IN  IF a = Len(s) THEN InNumber("Start", a = 0)
        ELSE IF b = a \/ (s[a + 1] = Chr.d0 /\ b > a + 1) THEN NotInNumber
        ELSE IF b = Len(s)
        THEN InNumber(IF s[a + 1] = Chr.d0 THEN "PostInteger" ELSE "InInteger", FALSE)
        ELSE IF s[b + 1] # Chr.dot THEN EndsInExponent(s, b)
        ELSE IF b + 1 = Len(s) THEN InNumber("PreFraction", FALSE)
        ELSE IF c = b + 1 THEN NotInNumber
        ELSE IF c = Len(s) THEN InNumber("Fraction", FALSE)
        ELSE EndsInExponent(s, c)

NumberGetCalled == last.call = "Number::get"

EndOfInputInNumber ==
    NumberGetCalled
        => LET end == EndsInNumber(Called.remaining)
           IN  /\ end.state \in {"InInteger", "PostInteger", "Fraction", "Exponent"}
                      => last.ret = Ok(Called.remaining)
               /\ end.state \in {"Start", "PreFraction"}
                      => last.ret = Err(<<"ParseNumberError", "UnexpectedEnd",
                                          end.or_sign>>)
               /\ end.state = "PreExponent"
                      => last.ret = Err(<<"ParseNumberError",
                                          "UnexpectedEndAfterExponent", end.or_sign>>)
               /\ end.state = "None"
                      => /\ last.ret # Ok(Called.remaining)
                         /\ last.ret.tag = "Err"
                                => last.ret.e[2] \notin {"UnexpectedEnd",
                                                         "UnexpectedEndAfterExponent"}

\* The input ends after the sign of the exponent: no second sign could
\* follow.
EndOfInputInNumberWitness ==
    /\ NumberGetCalled
    /\ EndsInNumber(Called.remaining) = InNumber("PreExponent", FALSE)
    /\ last.ret.tag = "Err"
    /\ Len(Called.remaining) > 2

(***************************************************************************)
(* C34.  In an Object, the key is parsed to completion by the String       *)
(* machine in the call that meets its opening quote, and a key failure e   *)
(* is returned as InvalidName(e); after the key only whitespace and then a *)
(* colon is accepted, any other character c giving ExpectedColon(c); after *)
(* the colon only whitespace and then a value start is accepted, any other *)
(* character c giving InvalidElement(c).                                   *)
(***************************************************************************)
ObjectNextCalled == last.call = "Object::next" /\ ~Pending(Called)

\* The offset in the called object's remaining slice of the first character
\* of the key the call meets, after its opening quote; -1 when the call
\* meets no opening quote.  In Name(None) a call before has met the quote
\* and failed in the key.
KeyStart ==
    LET rem == Called.remaining
    IN  IF Called.machine.tag = "In" THEN RefPast(rem, 0, Chr.quote)
        ELSE IF Called.machine.tag = "Element"
        THEN RefPast(rem, RefPast(rem, 0, Chr.comma), Chr.quote)
        ELSE IF Called.machine.tag = "Name" /\ Called.machine.name.tag = "None" THEN 0
        ELSE -1

\* What the String machine makes of the key: Ok of the offset of its
\* closing quote, or its error.
KeyScanned == StringScan(SliceFrom(Called.remaining, KeyStart), 0, [tag |-> "In"])

\* The offset after the key's closing quote, -1 when the call has no
\* complete key before it.
AfterKey ==
    IF KeyStart # -1
    THEN IF KeyScanned.tag = "Ok" THEN KeyStart + KeyScanned.v + 1 ELSE -1
    ELSE IF Called.machine.tag = "Name" THEN 0
    ELSE -1

\* The key as it stands in the text, or as the object kept it.
KeyText ==
    IF KeyStart # -1 THEN SubSeq(Called.remaining, KeyStart + 1, AfterKey - 1)
    ELSE IF Called.machine.tag = "Name" THEN Called.machine.name.v
    ELSE Called.machine.name

\* The offset of the first character after the key that is no whitespace.
AtColon == RefSkip(Called.remaining, AfterKey, UnicodeWhitespace)

\* The offset after the colon, -1 when there is none there.
AfterColon ==
    IF Called.machine.tag = "PreElement" THEN 0
    ELSE IF AfterKey = -1 THEN -1
    ELSE RefPast(Called.remaining, AfterKey, Chr.colon)

\* The offset of the first character after the colon that is no whitespace.
AtMemberValue == RefSkip(Called.remaining, AfterColon, UnicodeWhitespace)

\* The called object after the call.
ObjectAfter == stack[last.depth]

KeyColonValue ==
    ObjectNextCalled
        => LET rem == Called.remaining
           IN  /\ (KeyStart # -1 /\ KeyScanned.tag = "Err")
                      => /\ last.ret = Err(<<"ParseObjectError", "InvalidName",
                                             KeyScanned.e>>)
                         /\ ObjectAfter.machine = [tag |-> "Name", name |-> None]
                         /\ ObjectAfter.remaining = SliceFrom(rem, KeyStart)
               /\ (AfterKey # -1 /\ AtColon < Len(rem) /\ rem[AtColon + 1] # Chr.colon)
                      => /\ last.ret = Err(<<"ParseObjectError", "ExpectedColon",
                                             rem[AtColon + 1]>>)
                         /\ ObjectAfter.machine = [tag |-> "Name", name |-> Some(KeyText)]
                         /\ ObjectAfter.remaining = SliceFrom(rem, AtColon)
               /\ (AfterColon # -1 /\ AtMemberValue < Len(rem))
                      => IF StartsValue(rem[AtMemberValue + 1])
                         THEN /\ YieldsValue(last.call, last.ret)
                              /\ last.ret.v.v.name = KeyText
                         ELSE /\ last.ret = Err(<<"ParseObjectError", "InvalidElement",
                                                  rem[AtMemberValue + 1]>>)
                              /\ ObjectAfter.machine = [tag |-> "PreElement",
                                                        name |-> KeyText]
                              /\ ObjectAfter.remaining = SliceFrom(rem, AtMemberValue)

\* A key with a backslash that starts no escape fails in the call that
\* met the opening brace and the opening quote.
KeyColonValueWitness ==
    /\ ObjectNextCalled
    /\ Called.machine.tag = "In"
    /\ KeyStart # -1 /\ KeyScanned.tag = "Err"
    /\ KeyScanned.e[2] # "UnexpectedEnd"
    /\ last.ret.tag = "Err"

(***************************************************************************)
(* C35.  After a completed element, an Array or an Object accepts only     *)
(* whitespace, a comma or its own closing bracket; any other character c,  *)
(* also one that could start a value, yields ExpectedCommaOrEnd(c), so two *)
(* elements are never yielded without a comma between them.                *)
(***************************************************************************)
\* The last call was next on a container whose last element is complete.
AfterCompletedElement ==
    /\ last.call \in {"Array::next", "Object::next"}
    /\ Called.machine.tag = "Element"
    /\ Called.machine.element.tag = "Done"

\* The offset in its remaining slice of the first character that is no
\* whitespace.
AfterElement == RefSkip(Called.remaining, 0, UnicodeWhitespace)

ExpectedCommaOrEnd(type, c) ==
    Err(<<IF type = "Array" THEN "ParseArrayError" ELSE "ParseObjectError",
          "ExpectedCommaOrEnd", c>>)

IsExpectedCommaOrEnd(ret) == ret.tag = "Err" /\ ret.e[2] = "ExpectedCommaOrEnd"

CommaBetweenElements ==
    AfterCompletedElement
        => LET rem == Called.remaining
               i == AfterElement
           IN  /\ YieldsValue(last.call, last.ret)
                      => i < Len(rem) /\ rem[i + 1] = Chr.comma
               /\ IF i = Len(rem) THEN last.ret.tag = "Err" /\ ~IsExpectedCommaOrEnd(last.ret)
                  ELSE IF rem[i + 1] = Closing(Called.type) THEN last.ret = Ok(None)
                  ELSE IF rem[i + 1] = Chr.comma THEN ~IsExpectedCommaOrEnd(last.ret)
                  ELSE /\ last.ret = ExpectedCommaOrEnd(Called.type, rem[i + 1])
                       /\ stack[last.depth] =
                              [Called EXCEPT !.remaining = SliceFrom(rem, i)]

\* An array meets, after an element and whitespace, a character that could
\* start a value.
CommaBetweenElementsWitness ==
    /\ AfterCompletedElement
    /\ last.call = "Array::next"
    /\ AfterElement > 0
    /\ AfterElement < Len(Called.remaining)
    /\ StartsValue(Called.remaining[AfterElement + 1])
    /\ IsExpectedCommaOrEnd(last.ret)

(***************************************************************************)
(* C36.  For every ParsedString String::get has produced and at every      *)
(* point of the iteration over its characters, the size_hint               *)
(* (min, Some(max)) of the iterator brackets the number n of decoded       *)
(* characters still to come: min <= n <= max, where max is the number of   *)
(* raw bytes left and min is that number divided, rounding up, by 4 (fewer *)
(* than 6 bytes), by 6 (fewer than 12 bytes) or by 12 (otherwise).         *)
(***************************************************************************)
\* The bytes of the UTF-8 form of s: one for each character and one more
\* for each character from U+0080, from U+0800 and from U+10000 on.
RefBytes(s) ==
    Len(s) + Cardinality({ k \in 1..Len(s) : s[k] >= 128 })
           + Cardinality({ k \in 1..Len(s) : s[k] >= 2048 })
           + Cardinality({ k \in 1..Len(s) : s[k] >= 65536 })

SizeHintCalled == last.call = "Chars::size_hint"

\* The characters the iterator has still to give: the items of the slice
\* it has still to read.
StillToCome == Len(ItemStarts(last.view, 0))

\* The bytes the longest character can take among the bytes left.
LongestCharacter(bytes) == IF bytes < 6 THEN 4 ELSE IF bytes < 12 THEN 6 ELSE 12

SizeHintBrackets ==
    SizeHintCalled
        => LET bytes == RefBytes(last.view)
               d == LongestCharacter(bytes)
           IN  /\ last.ret.tag = "SizeHint"
               /\ last.ret.max = Some(bytes)
               /\ last.ret.min * d >= bytes
               /\ last.ret.min > 0 => (last.ret.min - 1) * d < bytes
               /\ last.ret.min <= StillToCome
               /\ StillToCome <= bytes
               /\ ParsedStringEscaped(last.view).tag = "Value"
               /\ Len(ParsedStringEscaped(last.view).v) = StillToCome

\* After the first character of a string, with a surrogate pair and an
\* escape left: fourteen bytes for two characters.
SizeHintBracketsWitness ==
    /\ SizeHintCalled
    /\ RefBytes(last.view) = 14
    /\ StillToCome = 2
    /\ last.ret.min = 2

(***************************************************************************)
(* C37.  In every reachable state, the remaining slice of every cursor is  *)
(* a suffix of the input and of its parent's remaining slice at the moment *)
(* the child was created; no operation lengthens a remaining slice; and    *)
(* every completed child hands its parent a suffix strictly shorter than   *)
(* the slice the child was created with.                                   *)
(***************************************************************************)
IsSuffix(a, b) == Len(a) <= Len(b) /\ a = SliceFrom(b, Len(b) - Len(a))

\* The cursors that were alive before the last step and still are.
Surviving == 1..(IF Len(last.before) < depth THEN Len(last.before) ELSE depth)

\* The last call completed a cursor that has a parent.
CompletedUnderParent ==
    /\ last.depth > 1
    /\ last.call \notin {"new", "drop"}
    /\ last.call \notin NumberViewCalls \cup StringViewCalls \cup CharsCalls
    /\ Completes(last.call, last.ret)

\* The slice that cursor was created with: its parent's at that moment.
CreatedWith == origin[last.depth].remaining

RemainingOnlyShrinks ==
    /\ \A d \in 1..depth : IsSuffix(stack[d].remaining, json)
    /\ \A d \in 2..depth : IsSuffix(stack[d].remaining, origin[d].remaining)
    /\ \A d \in Surviving : IsSuffix(stack[d].remaining, last.before[d].remaining)
    /\ CompletedUnderParent
           => /\ IsSuffix(stack[last.depth - 1].remaining, CreatedWith)
              /\ Len(stack[last.depth - 1].remaining) < Len(CreatedWith)

\* An empty string in a container completes: its parent is handed one
\* character less than the string was created with.
RemainingOnlyShrinksWitness ==
    /\ CompletedUnderParent
    /\ last.call = "String::get"
    /\ last.depth > 2
    /\ Len(stack[last.depth - 1].remaining) = Len(CreatedWith) - 1
(***************************************************************************)
(* C38.  Every next, get and finish returns.  The loop of a next starts    *)
(* with the remaining slice of the called cursor; each iteration that does *)
(* not return cuts at least one character off it, except that the          *)
(* iteration before the last may leave it as it is when the call yields a  *)
(* number or a literal (the first character is kept for the child); so the *)
(* loop makes at most one iteration more than the slice has characters.    *)
(* Each iteration of the while loop of a finish returns or finishes a      *)
(* value; the loops of a finish, those of the values it finishes included, *)
(* go round at most as many times as the remaining slice of the called     *)
(* cursor has characters.                                                  *)
(***************************************************************************)
NextCalls == {"Document::next", "MultiDocument::next", "Array::next", "Object::next"}

GetCalls == {"String::get", "Number::get", "Literal::get"}

FinishCalls ==
    {"Document::finish", "MultiDocument::finish", "Array::finish",
     "Object::finish", "String::finish", "Number::finish", "Literal::finish"}

\* The length of the remaining slice at the start of each iteration.
Iterations == last.work.lens

\* The call yields a child that keeps its first character.
YieldsKeepingFirst ==
    /\ YieldsValue(last.call, last.ret)
    /\ last.ret.v.v.child.type \in {"Number", "Literal"}

\* Iteration j, which did not return, consumed at least one character.
Consumes(j) == Iterations[j + 1] < Iterations[j]

\* Iteration j, which did not return, left the slice as it was.
Keeps(j) == Iterations[j + 1] = Iterations[j]

TerminatesWithinInput ==
    /\ last.call \in NextCalls \cup GetCalls \cup FinishCalls
           => last.ret.tag \in {"Ok", "Err"}
    /\ last.call \in NextCalls
           => /\ Len(Iterations) >= 1
              /\ Iterations[1] = Len(Called.remaining)
              /\ \A j \in 1..(Len(Iterations) - 1) :
                     \/ Consumes(j)
                     \/ /\ Keeps(j)
                        /\ j = Len(Iterations) - 1
                        /\ YieldsKeepingFirst
              /\ Len(Iterations) <= Len(Called.remaining) + 1
    /\ last.call \in FinishCalls
           => last.work.steps <= Len(Called.remaining)

\* A next that cuts a character off, meets the first character of a number or
\* a literal, keeps it, and returns in the iteration after.
TerminatesWithinInputWitness ==
    /\ last.call = "Array::next"
    /\ YieldsKeepingFirst
    /\ Len(Iterations) >= 3
    /\ Keeps(Len(Iterations) - 1)
    /\ \A j \in 1..(Len(Iterations) - 2) : Consumes(j)
(***************************************************************************)
(* C39.  No call on a cursor panics in the machine of an array or of an    *)
(* object: whatever the input and whatever calls came before (calls        *)
(* repeated after an error, after None, or on a cursor whose child is      *)
(* still pending), Array::next and Object::next apply a character only in  *)
(* a state in which Machine::apply is defined, so neither they nor a       *)
(* finish or a helper that runs them ends in the panic of apply.  A call   *)
(* on a cursor whose machine is in Element(Prompted), End or Name(None)    *)
(* takes the arm of that state before any character is applied: it yields  *)
(* the pending child, returns None, or (an object left in Name(None) by a  *)
(* name that failed) fails on the name again.                              *)
(***************************************************************************)
CursorCalled ==
    last.call \notin {"new", "drop"} \cup NumberViewCalls \cup StringViewCalls
                         \cup CharsCalls

ContainerNextCalled == last.call \in {"Array::next", "Object::next"}

CalledPrompted ==
    Called.machine.tag = "Element" /\ Called.machine.element.tag = "Prompted"

CalledAtEnd == Called.machine.tag = "End"

CalledAtName == Called.machine.tag = "Name" /\ Called.machine.name.tag = "None"

ApplyNeverPanics ==
    /\ CursorCalled => last.ret.tag \in {"Ok", "Err"}
    /\ ContainerNextCalled /\ CalledPrompted
           => /\ YieldsValue(last.call, last.ret)
              /\ Len(Iterations) = 1
    /\ ContainerNextCalled /\ CalledAtEnd
           => /\ last.ret = Ok(None)
              /\ Len(Iterations) = 1
    /\ ContainerNextCalled /\ CalledAtName
           => /\ last.ret.tag = "Err"
              /\ last.ret.e[2] = "InvalidName"
              /\ Len(Iterations) = 1

\* Array::next called again after it has returned None, on an array that
\* is followed by more input: the machine is in End and the next character
\* is not applied.
ApplyNeverPanicsWitness ==
    /\ last.call = "Array::next"
    /\ CalledAtEnd
    /\ Called.remaining # <<>>
    /\ last.ret = Ok(None)
(***************************************************************************)
(* C40.  In every string that String::get returns, for a value or for the  *)
(* name of a member of an object, every backslash begins an escape that    *)
(* the escape machine accepts and that ends inside the string: one of the  *)
(* eight two-character escapes, a \u escape of a scalar value, or the \u    *)
(* escape of a high surrogate followed by that of a low surrogate.  So     *)
(* Chars::next on such a string, wherever the iteration stands, returns a  *)
(* character and moves on, or None at the end, and never panics; nor does  *)
(* escaped, which collects the iteration.                                  *)
(***************************************************************************)
\* The offset after the escape whose backslash is at offset i of s, or -1
\* when no escape that the machine accepts begins there and ends in s.
EscapeEnd(s, i) ==
    IF i + 2 > Len(s) THEN -1
    ELSE IF s[i + 2] \in {34, 92, 47, 98, 102, 110, 114, 116} THEN i + 2
    ELSE IF s[i + 2] # 117 \/ RefHex4(s, i + 2) = -1 THEN -1
    ELSE IF RefHex4(s, i + 2) \notin 55296..57343 THEN i + 6
    ELSE IF RefHex4(s, i + 2) >= 56320 THEN -1
    ELSE IF i + 8 > Len(s) \/ s[i + 7] # 92 \/ s[i + 8] # 117 THEN -1
    ELSE IF RefHex4(s, i + 8) \notin 56320..57343 THEN -1
    ELSE i + 12

RECURSIVE EscapesComplete(_, _)
EscapesComplete(s, i) ==
    IF i >= Len(s) THEN TRUE
    ELSE IF s[i + 1] # 92 THEN EscapesComplete(s, i + 1)
    ELSE EscapeEnd(s, i) # -1 /\ EscapesComplete(s, EscapeEnd(s, i))

\* The call has handed the caller a string.
StringReturned ==
    \/ last.call = "String::get" /\ last.ret.tag = "Ok"
    \/ last.call = "Object::next" /\ YieldsValue(last.call, last.ret)

ReturnedString ==
    IF last.call = "String::get" THEN last.ret.v ELSE last.ret.v.v.name

IterationNeverPanics ==
    /\ StringReturned => EscapesComplete(ReturnedString, 0)
    /\ last.call \in StringViewCalls \cup CharsCalls => EscapesComplete(last.view, 0)
    /\ last.call = "ParsedString::escaped" => last.ret.tag = "Value"
    /\ last.call = "ParsedString::chars" => last.ret.tag = "Value"
    /\ last.call = "Chars::next"
           => /\ last.ret.tag \in {"Some", "None"}
              /\ last.ret.tag = "None" => last.view = <<>>

\* The iteration over the name of a member, written as one \u escape, has
\* returned the character and stands at the end.
IterationNeverPanicsWitness ==
    /\ last.call = "Chars::next"
    /\ last.ret = Some(Chr.eacute)
    /\ last.view = <<>>
    /\ depth > 1
    /\ top.type = "Number"
    /\ stack[depth - 1].type = "Object"
    /\ stack[depth - 1].machine.name = Unicode(Chr.d0, Chr.d0, Chr.e, Chr.d9)
=============================================================================
